---- MODULE Spec2Model ----
(***************************************************************************)
(* A model of src/src/utils/generate-model.ts (generateModel and           *)
(* generateDataModel) and of isBetween in src/src/utils/date.ts.           *)
(*                                                                         *)
(* JavaScript values are tagged records; a JavaScript string is the        *)
(* sequence of its characters, so that includes('.') and split('.') are    *)
(* computed and not assumed.  An object is a function from its own keys    *)
(* to values together with its prototype; an array is the sequence of its  *)
(* elements.  An object whose iteration order matters (a field mapping)    *)
(* is the sequence of its Object.entries.                                  *)
(*                                                                         *)
(* The values are undefined, null, booleans, integers and the numbers      *)
(* known by name (NaN, the infinities, the constants of Number), strings,  *)
(* objects and arrays of such values, String, Number and Boolean objects,  *)
(* the callbacks of the options, and what a property read can reach from   *)
(* those: the prototype objects of Object, Array, Function, String,        *)
(* Number and Boolean, the constructors and the built-in functions.        *)
(* Where an operator has no CASE arm for a value or a call, it is outside  *)
(* what is modelled: built-in functions that write to their arguments or   *)
(* to `this`, that depend on the order of an object's keys, on a locale,   *)
(* on a pattern or on a parser of JavaScript, and numbers that are neither *)
(* integers of at most nine digits nor named.                              *)
(***************************************************************************)
EXTENDS Integers, Sequences, FiniteSets, TLC

VARIABLES
    defaultDataModelMapping, \* the module-level default mapping (an entries sequence)
    data,                    \* the caller's data argument
    fieldMapping,            \* the caller's fieldMapping argument (an entries sequence)
    options,                 \* the caller's options argument
    snapshot,                \* the four objects above as they were before the first call
    lastCall,                \* "none", "generateModel" or "generateDataModel"
    out,                     \* the array returned by the last call
    raised,                  \* whether the last call threw instead of returning
    log,                     \* what the last call did, in order
    mapping,                 \* the mapping table the last call handed to the engine
    firstOut,                \* per function, the outcome of its first call
    repeated,                \* whether the last call's function had been called before
    dateArgs,                \* the arguments of the last isBetween call
    dateResult               \* what it returned

vars == <<defaultDataModelMapping, data, fieldMapping, options, snapshot,
          lastCall, out, raised, log, mapping, firstOut, repeated, dateArgs, dateResult>>

dateVars == <<dateArgs, dateResult>>

-----------------------------------------------------------------------------
(* JavaScript values *)

Undefined == [k |-> "undefined"]
Null == [k |-> "null"]
Absent == [k |-> "absent"]      \* marks a property an object does not have
Num(n) == [k |-> "number", n |-> n]
Bool(b) == [k |-> "boolean", b |-> b]
Str(s) == [k |-> "string", s |-> s]
Obj(o) == [k |-> "object", o |-> o]
Arr(a) == [k |-> "array", a |-> a]
Fn(f, env) == [k |-> "function", f |-> f, env |-> env]

\* A number that is no integer of the model, named by the string it converts
\* to: NaN, Infinity, -Infinity and the constants of Number
NamedNumber(name) == [k |-> "number", name |-> name]
NaN == NamedNumber(<<"N", "a", "N">>)
IsNamedNumber(v) == v.k = "number" /\ "name" \in DOMAIN v

\* An object with the own properties o whose prototype is p and not
\* Object.prototype (what `obj.__proto__ = p` leaves behind)
ObjWithProto(o, p) == [k |-> "object", o |-> o, proto |-> p]

\* The prototype objects of the built-in constructors
ObjectPrototype == [k |-> "prototype", of |-> "Object"]
ArrayPrototype == [k |-> "prototype", of |-> "Array"]
FunctionPrototype == [k |-> "prototype", of |-> "Function"]
StringPrototype == [k |-> "prototype", of |-> "String"]
NumberPrototype == [k |-> "prototype", of |-> "Number"]
BooleanPrototype == [k |-> "prototype", of |-> "Boolean"]

\* A built-in function: a constructor (role "constructor"), a method of a
\* prototype object (role "method") or a static method of a constructor (role
\* "static")
Native(owner, role, name) == Fn("native", [owner |-> owner, role |-> role, name |-> name])

\* A function the caller wrote
Callback(f) == Fn(f, [owner |-> "caller"])

\* Object(v) for a primitive v: a Number, String or Boolean object
Boxed(v) == [k |-> "boxed", v |-> v]

\* The outcome of an evaluation that throws
Thrown == [k |-> "throw"]

\* Reading a property slot: a missing property reads as undefined.
Read(slot) == IF slot = Absent THEN Undefined ELSE slot

\* ToBoolean, as `x && ...`, `!x` and `x || y` apply it.
Truthy(v) ==
    CASE v.k = "undefined" -> FALSE
      [] v.k = "absent" -> FALSE
      [] v.k = "null" -> FALSE
      [] v.k = "boolean" -> v.b
      [] v.k = "number" -> IF IsNamedNumber(v) THEN v # NaN ELSE v.n # 0
      [] v.k = "string" -> v.s # <<>>
      [] OTHER -> TRUE

\* typeof v === 'function'; Function.prototype is itself a function
TypeofFunction(v) == v.k = "function" \/ v = FunctionPrototype

\* typeof v === 'object'
TypeofObject(v) ==
    v.k \in {"object", "array", "null", "boxed"} \/ (v.k = "prototype" /\ v # FunctionPrototype)

\* Array.isArray(v); Array.prototype is itself an array
IsArray(v) == v.k = "array" \/ v = ArrayPrototype

\* Whether the value is an object (a function included) and no primitive
IsObjectType(v) == v.k \in {"object", "array", "prototype", "boxed", "function"}

Nullish(v) == v.k \in {"undefined", "null", "absent"}

\* ToObject for a value that is not undefined or null
ToObject(v) == IF IsObjectType(v) THEN v ELSE Boxed(v)

-----------------------------------------------------------------------------
(* Strings *)

kId == <<"i", "d">>
kLink == <<"l", "i", "n", "k">>
kLength == <<"l", "e", "n", "g", "t", "h">>
kProto == <<"_", "_", "p", "r", "o", "t", "o", "_", "_">>
kToString == <<"t", "o", "S", "t", "r", "i", "n", "g">>
kValueOf == <<"v", "a", "l", "u", "e", "O", "f">>
kInfinity == <<"I", "n", "f", "i", "n", "i", "t", "y">>

\* key.includes(ch)
includes(key, ch) == \E i \in 1..Len(key) : key[i] = ch

\* key.split(ch): the segments between the occurrences of ch
RECURSIVE splitFrom(_, _, _, _)
splitFrom(key, ch, i, part) ==
    IF i > Len(key) THEN <<part>>
    ELSE IF key[i] = ch THEN <<part>> \o splitFrom(key, ch, i + 1, <<>>)
    ELSE splitFrom(key, ch, i + 1, Append(part, key[i]))

split(key, ch) == splitFrom(key, ch, 1, <<>>)

Digits == <<"0", "1", "2", "3", "4", "5", "6", "7", "8", "9">>

\* The decimal digits of a natural number
RECURSIVE NatToString(_)
NatToString(n) ==
    IF n < Len(Digits) THEN <<Digits[n + 1]>>
    ELSE NatToString(n \div Len(Digits)) \o <<Digits[(n % Len(Digits)) + 1]>>

\* The largest integer a converted string denotes in the model
kMaxInt == 999999999

\* The characters of ASCII from the space (code 32) to the tilde (code 126),
\* in the order of their codes, but the grave accent (code 96), which a
\* string of this notation cannot hold and no string of the model has
Ascii ==
    << " ", "!", "\"", "#", "$", "%", "&", "'", "(", ")", "*", "+", ",", "-",
       ".", "/", "0", "1", "2", "3", "4", "5", "6", "7", "8", "9", ":", ";",
       "<", "=", ">", "?", "@", "A", "B", "C", "D", "E", "F", "G", "H", "I",
       "J", "K", "L", "M", "N", "O", "P", "Q", "R", "S", "T", "U", "V", "W",
       "X", "Y", "Z", "[", "\\", "]", "^", "_", "a", "b", "c", "d", "e",
       "f", "g", "h", "i", "j", "k", "l", "m", "n", "o", "p", "q", "r", "s",
       "t", "u", "v", "w", "x", "y", "z", "{", "|", "}", "~" >>

IsAscii(ch) == \E n \in 1..Len(Ascii) : Ascii[n] = ch

\* The code of a character of ASCII
CharCode(ch) ==
    IF \E n \in 1..64 : Ascii[n] = ch THEN 31 + CHOOSE n \in 1..64 : Ascii[n] = ch
    ELSE 32 + CHOOSE n \in 65..Len(Ascii) : Ascii[n] = ch

\* The value of a character as a digit: 0 to 9, then a to z or A to Z for 10
\* to 35; 36 for a character that is no digit in any radix
RadixDigit(ch) ==
    IF ~IsAscii(ch) THEN 36
    ELSE IF CharCode(ch) \in 48..57 THEN CharCode(ch) - 48
    ELSE IF CharCode(ch) \in 65..90 THEN CharCode(ch) - 55
    ELSE IF CharCode(ch) \in 97..122 THEN CharCode(ch) - 87
    ELSE 36

\* The position after the digits in the given radix that s has from position
\* i on
RECURSIVE DigitsEnd(_, _, _)
DigitsEnd(s, i, radix) ==
    IF i <= Len(s) /\ RadixDigit(s[i]) < radix THEN DigitsEnd(s, i + 1, radix) ELSE i

\* The number a string of digits denotes in the given radix, or kMaxInt + 1
\* when that is more than kMaxInt
RECURSIVE RadixValue(_, _)
RadixValue(s, radix) ==
    IF s = <<>> THEN 0
    ELSE IF RadixValue(SubSeq(s, 1, Len(s) - 1), radix)
                > (kMaxInt - RadixDigit(s[Len(s)])) \div radix
    THEN kMaxInt + 1
    ELSE RadixValue(SubSeq(s, 1, Len(s) - 1), radix) * radix + RadixDigit(s[Len(s)])

\* The number a string of decimal digits denotes
DecimalValue(s) == RadixValue(s, Len(Digits))

\* Whether s is a string of decimal digits, and not empty
IsDigits(s) == Len(s) > 0 /\ \A i \in 1..Len(s) : RadixDigit(s[i]) < Len(Digits)

\* The white space StringToNumber and String.prototype.trim strip: TAB, LF,
\* VT, FF, CR, the space, the no-break space and the byte order mark.  (The
\* other spaces of Unicode and its line and paragraph separators are not
\* characters a string of the model holds.)
WhiteSpace == {" ", "\t", "\n", "\r", "\f", "", " ", "﻿"}

\* s.trimStart() and s.trimEnd()
RECURSIVE TrimStart(_)
TrimStart(s) == IF s # <<>> /\ s[1] \in WhiteSpace THEN TrimStart(Tail(s)) ELSE s

RECURSIVE TrimEnd(_)
TrimEnd(s) ==
    IF s # <<>> /\ s[Len(s)] \in WhiteSpace THEN TrimEnd(SubSeq(s, 1, Len(s) - 1)) ELSE s

\* s.trim()
Trim(s) == TrimEnd(TrimStart(s))

\* s without the sign it begins with
Unsigned(s) == IF s # <<>> /\ s[1] \in {"+", "-"} THEN Tail(s) ELSE s

\* The StrUnsignedDecimalLiteral other than Infinity that s begins with:
\* digits, a point and digits, an exponent; at least one digit before the
\* exponent, and an exponent counts only with a digit of its own.  `end` is the
\* position after the literal (1 when s begins with none), `digits` are the
\* digits before and after the point, and the literal denotes the number of
\* these digits times ten to the power `exp`.
DecimalPrefix(s) ==
    LET HasAt(i, chars) == i >= 1 /\ i <= Len(s) /\ s[i] \in chars
        Literal(intEnd, fracStart, fracEnd, expStart, expEnd) ==
            IF (intEnd - 1) + (fracEnd - fracStart) = 0
            THEN [end |-> 1, digits |-> <<>>, exp |-> 0]
            ELSE [end |-> IF expEnd > expStart THEN expEnd ELSE fracEnd,
                  digits |-> SubSeq(s, 1, intEnd - 1) \o SubSeq(s, fracStart, fracEnd - 1),
                  exp |-> (IF expEnd = expStart THEN 0
                           ELSE IF HasAt(expStart - 1, {"-"})
                           THEN 0 - DecimalValue(SubSeq(s, expStart, expEnd - 1))
                           ELSE DecimalValue(SubSeq(s, expStart, expEnd - 1)))
                          - (fracEnd - fracStart)]
        Exponent(intEnd, fracStart, fracEnd, expStart) ==
            Literal(intEnd, fracStart, fracEnd, expStart,
                    IF HasAt(fracEnd, {"e", "E"}) THEN DigitsEnd(s, expStart, Len(Digits))
                    ELSE expStart)
        Fraction(intEnd, fracStart, fracEnd) ==
            Exponent(intEnd, fracStart, fracEnd,
                     IF HasAt(fracEnd + 1, {"+", "-"}) THEN fracEnd + 2 ELSE fracEnd + 1)
        Whole(intEnd) ==
            IF HasAt(intEnd, {"."})
            THEN Fraction(intEnd, intEnd + 1, DigitsEnd(s, intEnd + 1, Len(Digits)))
            ELSE Fraction(intEnd, intEnd, intEnd)
    IN Whole(DigitsEnd(s, 1, Len(Digits)))

\* The number with the given sign and magnitude.  The model has the integers
\* up to kMaxInt: a fraction, a larger number and the negative zero are
\* numbers it does not have.
SignedNumber(negative, magnitude) ==
    CASE magnitude = 0 /\ ~negative -> Num(0)
      [] magnitude \in 1..kMaxInt -> Num(IF negative THEN 0 - magnitude ELSE magnitude)

\* The number of the decimal literal p = DecimalPrefix(body), which
\* StringToNumber reads when it is all of body and parseFloat reads as far as
\* it goes; NaN without one.  Scaled is the integer that the digits times ten
\* to the power exp denote, or kMaxInt + 1 when that is no integer or is more
\* than kMaxInt.
DecimalNumber(negative, body, p, whole) ==
    LET Scaled(digits, exp) ==
            IF DecimalValue(digits) = 0 THEN 0
            ELSE IF exp >= 0
            THEN (IF exp > Len(Digits) THEN kMaxInt + 1
                  ELSE DecimalValue(digits \o [i \in 1..exp |-> Digits[1]]))
            ELSE IF /\ 0 - exp < Len(digits)
                    /\ \A i \in (Len(digits) + exp + 1)..Len(digits) : digits[i] = Digits[1]
            THEN DecimalValue(SubSeq(digits, 1, Len(digits) + exp))
            ELSE kMaxInt + 1
    IN IF p.end = 1 \/ (whole /\ p.end # Len(body) + 1) THEN NaN
       ELSE SignedNumber(negative, Scaled(p.digits, p.exp))

\* The radix a literal's prefix 0x, 0o or 0b announces, or 10
PrefixRadix(s) ==
    IF Len(s) < 2 \/ s[1] # Digits[1] THEN 10
    ELSE IF s[2] \in {"x", "X"} THEN 16
    ELSE IF s[2] \in {"o", "O"} THEN 8
    ELSE IF s[2] \in {"b", "B"} THEN 2
    ELSE 10

\* StringToNumber: the string without the white space at its ends is the empty
\* string (0), an infinity with or without a sign, a hexadecimal, octal or
\* binary literal without a sign, or a decimal literal with or without a sign;
\* any other string is NaN.
StringToNumber(s) ==
    CASE Trim(s) = <<>> -> Num(0)
      [] Unsigned(Trim(s)) = kInfinity ->
            NamedNumber(IF Trim(s)[1] = "-" THEN <<"-", "I", "n", "f", "i", "n", "i", "t", "y">> ELSE kInfinity)
      [] PrefixRadix(Trim(s)) # 10 ->
            IF DigitsEnd(Trim(s), 3, PrefixRadix(Trim(s))) = Len(Trim(s)) + 1 /\ Len(Trim(s)) > 2
            THEN SignedNumber(FALSE, RadixValue(SubSeq(Trim(s), 3, Len(Trim(s))),
                                                PrefixRadix(Trim(s))))
            ELSE NaN
      [] OTHER ->
            DecimalNumber(Trim(s)[1] = "-", Unsigned(Trim(s)),
                          DecimalPrefix(Unsigned(Trim(s))), TRUE)

\* parseFloat of a string: the white space before it is stripped, and what
\* follows the literal is ignored
ParseFloat(s) ==
    IF /\ Len(Unsigned(TrimStart(s))) >= Len(kInfinity)
       /\ SubSeq(Unsigned(TrimStart(s)), 1, Len(kInfinity)) = kInfinity
    THEN NamedNumber(IF TrimStart(s)[1] = "-" THEN <<"-", "I", "n", "f", "i", "n", "i", "t", "y">> ELSE kInfinity)
    ELSE DecimalNumber(TrimStart(s) # <<>> /\ TrimStart(s)[1] = "-", Unsigned(TrimStart(s)),
                       DecimalPrefix(Unsigned(TrimStart(s))), FALSE)

\* parseInt of a string in the radix R = ToInt32(radix): 0 stands for 10; a
\* prefix 0x is dropped when R is 0 or 16, and makes the radix 16; the digits
\* the rest begins with are read, and there is no number without one
ParseInt(s, R) ==
    LET Parsed(negative, body, radix) ==
            IF DigitsEnd(body, 1, radix) = 1 THEN NaN
            ELSE SignedNumber(negative,
                              RadixValue(SubSeq(body, 1, DigitsEnd(body, 1, radix) - 1), radix))
    IN
    IF R # 0 /\ (R < 2 \/ R > 36) THEN NaN
    ELSE IF R \in {0, 16} /\ PrefixRadix(Unsigned(TrimStart(s))) = 16
    THEN Parsed(TrimStart(s)[1] = "-", Tail(Tail(Unsigned(TrimStart(s)))), 16)
    ELSE Parsed(TrimStart(s) # <<>> /\ TrimStart(s)[1] = "-", Unsigned(TrimStart(s)),
                IF R = 0 THEN 10 ELSE R)

\* The numeric order of two canonical numeric strings
IndexLess(a, b) ==
    \/ Len(a) < Len(b)
    \/ /\ Len(a) = Len(b)
       /\ \E i \in 1..Len(a) :
             /\ \A j \in 1..(i - 1) : a[j] = b[j]
             /\ RadixDigit(a[i]) < RadixDigit(b[i])

\* Whether a key is an array index: the canonical decimal string of an integer
\* from 0 to 2^32 - 2 (4294967294).  An object lists such keys first, in numeric order, and
\* its other keys after them, in the order they were added.
IsArrayIndex(key) ==
    /\ Len(key) > 0
    /\ IsDigits(key)
    /\ (Len(key) = 1 \/ key[1] # Digits[1])
    /\ ~IndexLess(<<"4", "2", "9", "4", "9", "6", "7", "2", "9", "4">>, key)

-----------------------------------------------------------------------------
(* Properties: own keys, the prototype chain, `in`, reads and writes.  The
   built-in objects are those of a current engine (Node.js 20). *)

\* The constants of Number
NumberConstants ==
    { <<"E", "P", "S", "I", "L", "O", "N">>, <<"M", "A", "X", "_", "S", "A", "F", "E", "_", "I", "N", "T", "E", "G", "E", "R">>, <<"M", "A", "X", "_", "V", "A", "L", "U", "E">>, <<"M", "I", "N", "_", "S", "A", "F", "E", "_", "I", "N", "T", "E", "G", "E", "R">>, <<"M", "I", "N", "_", "V", "A", "L", "U", "E">>,
      <<"N", "a", "N">>, <<"N", "E", "G", "A", "T", "I", "V", "E", "_", "I", "N", "F", "I", "N", "I", "T", "Y">>, <<"P", "O", "S", "I", "T", "I", "V", "E", "_", "I", "N", "F", "I", "N", "I", "T", "Y">> }

\* The value of a constant of Number
NumberConstant(key) ==
    CASE key = <<"N", "a", "N">> -> NaN
      [] key = <<"P", "O", "S", "I", "T", "I", "V", "E", "_", "I", "N", "F", "I", "N", "I", "T", "Y">> -> NamedNumber(kInfinity)
      [] key = <<"N", "E", "G", "A", "T", "I", "V", "E", "_", "I", "N", "F", "I", "N", "I", "T", "Y">> -> NamedNumber(<<"-", "I", "n", "f", "i", "n", "i", "t", "y">>)
      [] key = <<"M", "A", "X", "_", "S", "A", "F", "E", "_", "I", "N", "T", "E", "G", "E", "R">> -> NamedNumber(<<"9", "0", "0", "7", "1", "9", "9", "2", "5", "4", "7", "4", "0", "9", "9", "1">>)
      [] key = <<"M", "I", "N", "_", "S", "A", "F", "E", "_", "I", "N", "T", "E", "G", "E", "R">> -> NamedNumber(<<"-", "9", "0", "0", "7", "1", "9", "9", "2", "5", "4", "7", "4", "0", "9", "9", "1">>)
      [] key = <<"M", "A", "X", "_", "V", "A", "L", "U", "E">> -> NamedNumber(<<"1", ".", "7", "9", "7", "6", "9", "3", "1", "3", "4", "8", "6", "2", "3", "1", "5", "7", "e", "+", "3", "0", "8">>)
      [] key = <<"M", "I", "N", "_", "V", "A", "L", "U", "E">> -> NamedNumber(<<"5", "e", "-", "3", "2", "4">>)
      [] key = <<"E", "P", "S", "I", "L", "O", "N">> -> NamedNumber(<<"2", ".", "2", "2", "0", "4", "4", "6", "0", "4", "9", "2", "5", "0", "3", "1", "3", "e", "-", "1", "6">>)

\* The own string keys of a prototype object
PrototypeKeys(of) ==
    CASE of = "Object" ->
            { <<"c", "o", "n", "s", "t", "r", "u", "c", "t", "o", "r">>, kToString, kValueOf, <<"i", "s", "P", "r", "o", "t", "o", "t", "y", "p", "e", "O", "f">>, kProto, <<"h", "a", "s", "O", "w", "n", "P", "r", "o", "p", "e", "r", "t", "y">>,
              <<"p", "r", "o", "p", "e", "r", "t", "y", "I", "s", "E", "n", "u", "m", "e", "r", "a", "b", "l", "e">>, <<"t", "o", "L", "o", "c", "a", "l", "e", "S", "t", "r", "i", "n", "g">>, <<"_", "_", "d", "e", "f", "i", "n", "e", "G", "e", "t", "t", "e", "r", "_", "_">>, <<"_", "_", "d", "e", "f", "i", "n", "e", "S", "e", "t", "t", "e", "r", "_", "_">>,
              <<"_", "_", "l", "o", "o", "k", "u", "p", "G", "e", "t", "t", "e", "r", "_", "_">>, <<"_", "_", "l", "o", "o", "k", "u", "p", "S", "e", "t", "t", "e", "r", "_", "_">> }
      [] of = "Array" ->
            { kLength, <<"c", "o", "n", "s", "t", "r", "u", "c", "t", "o", "r">>, kToString, <<"t", "o", "L", "o", "c", "a", "l", "e", "S", "t", "r", "i", "n", "g">>, <<"j", "o", "i", "n">>, <<"a", "t">>,
              <<"c", "o", "n", "c", "a", "t">>, <<"c", "o", "p", "y", "W", "i", "t", "h", "i", "n">>, <<"f", "i", "l", "l">>, <<"f", "i", "n", "d">>, <<"f", "i", "n", "d", "I", "n", "d", "e", "x">>, <<"f", "i", "n", "d", "L", "a", "s", "t">>,
              <<"f", "i", "n", "d", "L", "a", "s", "t", "I", "n", "d", "e", "x">>, <<"l", "a", "s", "t", "I", "n", "d", "e", "x", "O", "f">>, <<"p", "o", "p">>, <<"p", "u", "s", "h">>, <<"r", "e", "v", "e", "r", "s", "e">>, <<"s", "h", "i", "f", "t">>,
              <<"u", "n", "s", "h", "i", "f", "t">>, <<"s", "l", "i", "c", "e">>, <<"s", "o", "r", "t">>, <<"s", "p", "l", "i", "c", "e">>, <<"i", "n", "c", "l", "u", "d", "e", "s">>, <<"i", "n", "d", "e", "x", "O", "f">>,
              <<"k", "e", "y", "s">>, <<"e", "n", "t", "r", "i", "e", "s">>, <<"v", "a", "l", "u", "e", "s">>, <<"f", "o", "r", "E", "a", "c", "h">>, <<"f", "i", "l", "t", "e", "r">>, <<"f", "l", "a", "t">>, <<"f", "l", "a", "t", "M", "a", "p">>,
              <<"m", "a", "p">>, <<"e", "v", "e", "r", "y">>, <<"s", "o", "m", "e">>, <<"r", "e", "d", "u", "c", "e">>, <<"r", "e", "d", "u", "c", "e", "R", "i", "g", "h", "t">>, <<"t", "o", "R", "e", "v", "e", "r", "s", "e", "d">>,
              <<"t", "o", "S", "o", "r", "t", "e", "d">>, <<"t", "o", "S", "p", "l", "i", "c", "e", "d">>, <<"w", "i", "t", "h">> }
      [] of = "Function" ->
            { kLength, <<"n", "a", "m", "e">>, <<"a", "r", "g", "u", "m", "e", "n", "t", "s">>, <<"c", "a", "l", "l", "e", "r">>, <<"c", "o", "n", "s", "t", "r", "u", "c", "t", "o", "r">>, <<"a", "p", "p", "l", "y">>, <<"b", "i", "n", "d">>, <<"c", "a", "l", "l">>, kToString }
      [] of = "String" ->
            { kLength, <<"c", "o", "n", "s", "t", "r", "u", "c", "t", "o", "r">>, kToString, kValueOf, <<"a", "t">>, kLink,
              <<"a", "n", "c", "h", "o", "r">>, <<"b", "i", "g">>, <<"b", "l", "i", "n", "k">>, <<"b", "o", "l", "d">>, <<"c", "h", "a", "r", "A", "t">>, <<"c", "h", "a", "r", "C", "o", "d", "e", "A", "t">>, <<"c", "o", "d", "e", "P", "o", "i", "n", "t", "A", "t">>,
              <<"c", "o", "n", "c", "a", "t">>, <<"e", "n", "d", "s", "W", "i", "t", "h">>, <<"f", "o", "n", "t", "c", "o", "l", "o", "r">>, <<"f", "o", "n", "t", "s", "i", "z", "e">>, <<"f", "i", "x", "e", "d">>, <<"i", "n", "c", "l", "u", "d", "e", "s">>,
              <<"i", "n", "d", "e", "x", "O", "f">>, <<"i", "s", "W", "e", "l", "l", "F", "o", "r", "m", "e", "d">>, <<"i", "t", "a", "l", "i", "c", "s">>, <<"l", "a", "s", "t", "I", "n", "d", "e", "x", "O", "f">>, <<"l", "o", "c", "a", "l", "e", "C", "o", "m", "p", "a", "r", "e">>,
              <<"m", "a", "t", "c", "h">>, <<"m", "a", "t", "c", "h", "A", "l", "l">>, <<"n", "o", "r", "m", "a", "l", "i", "z", "e">>, <<"p", "a", "d", "E", "n", "d">>, <<"p", "a", "d", "S", "t", "a", "r", "t">>, <<"r", "e", "p", "e", "a", "t">>,
              <<"r", "e", "p", "l", "a", "c", "e">>, <<"r", "e", "p", "l", "a", "c", "e", "A", "l", "l">>, <<"s", "e", "a", "r", "c", "h">>, <<"s", "l", "i", "c", "e">>, <<"s", "m", "a", "l", "l">>, <<"s", "p", "l", "i", "t">>, <<"s", "t", "r", "i", "k", "e">>,
              <<"s", "u", "b">>, <<"s", "u", "b", "s", "t", "r">>, <<"s", "u", "b", "s", "t", "r", "i", "n", "g">>, <<"s", "u", "p">>, <<"s", "t", "a", "r", "t", "s", "W", "i", "t", "h">>, <<"t", "o", "W", "e", "l", "l", "F", "o", "r", "m", "e", "d">>,
              <<"t", "r", "i", "m">>, <<"t", "r", "i", "m", "S", "t", "a", "r", "t">>, <<"t", "r", "i", "m", "L", "e", "f", "t">>, <<"t", "r", "i", "m", "E", "n", "d">>, <<"t", "r", "i", "m", "R", "i", "g", "h", "t">>,
              <<"t", "o", "L", "o", "c", "a", "l", "e", "L", "o", "w", "e", "r", "C", "a", "s", "e">>, <<"t", "o", "L", "o", "c", "a", "l", "e", "U", "p", "p", "e", "r", "C", "a", "s", "e">>, <<"t", "o", "L", "o", "w", "e", "r", "C", "a", "s", "e">>, <<"t", "o", "U", "p", "p", "e", "r", "C", "a", "s", "e">> }
      [] of = "Number" ->
            { <<"c", "o", "n", "s", "t", "r", "u", "c", "t", "o", "r">>, kToString, kValueOf, <<"t", "o", "L", "o", "c", "a", "l", "e", "S", "t", "r", "i", "n", "g">>,
              <<"t", "o", "E", "x", "p", "o", "n", "e", "n", "t", "i", "a", "l">>, <<"t", "o", "F", "i", "x", "e", "d">>, <<"t", "o", "P", "r", "e", "c", "i", "s", "i", "o", "n">> }
      [] of = "Boolean" -> { <<"c", "o", "n", "s", "t", "r", "u", "c", "t", "o", "r">>, kToString, kValueOf }

\* The static keys of a constructor: its static methods and, for Number, the
\* constants
StaticKeys(of) ==
    CASE of = "Object" ->
            { <<"a", "s", "s", "i", "g", "n">>, <<"g", "e", "t", "O", "w", "n", "P", "r", "o", "p", "e", "r", "t", "y", "D", "e", "s", "c", "r", "i", "p", "t", "o", "r">>, <<"g", "e", "t", "O", "w", "n", "P", "r", "o", "p", "e", "r", "t", "y", "D", "e", "s", "c", "r", "i", "p", "t", "o", "r", "s">>,
              <<"g", "e", "t", "O", "w", "n", "P", "r", "o", "p", "e", "r", "t", "y", "N", "a", "m", "e", "s">>, <<"g", "e", "t", "O", "w", "n", "P", "r", "o", "p", "e", "r", "t", "y", "S", "y", "m", "b", "o", "l", "s">>, <<"h", "a", "s", "O", "w", "n">>, <<"i", "s">>,
              <<"p", "r", "e", "v", "e", "n", "t", "E", "x", "t", "e", "n", "s", "i", "o", "n", "s">>, <<"s", "e", "a", "l">>, <<"c", "r", "e", "a", "t", "e">>, <<"d", "e", "f", "i", "n", "e", "P", "r", "o", "p", "e", "r", "t", "i", "e", "s">>,
              <<"d", "e", "f", "i", "n", "e", "P", "r", "o", "p", "e", "r", "t", "y">>, <<"f", "r", "e", "e", "z", "e">>, <<"g", "e", "t", "P", "r", "o", "t", "o", "t", "y", "p", "e", "O", "f">>, <<"s", "e", "t", "P", "r", "o", "t", "o", "t", "y", "p", "e", "O", "f">>,
              <<"i", "s", "E", "x", "t", "e", "n", "s", "i", "b", "l", "e">>, <<"i", "s", "F", "r", "o", "z", "e", "n">>, <<"i", "s", "S", "e", "a", "l", "e", "d">>, <<"k", "e", "y", "s">>, <<"e", "n", "t", "r", "i", "e", "s">>,
              <<"f", "r", "o", "m", "E", "n", "t", "r", "i", "e", "s">>, <<"v", "a", "l", "u", "e", "s">> }
      [] of = "Array" -> { <<"f", "r", "o", "m">>, <<"i", "s", "A", "r", "r", "a", "y">>, <<"o", "f">> }
      [] of = "String" -> { <<"f", "r", "o", "m", "C", "h", "a", "r", "C", "o", "d", "e">>, <<"f", "r", "o", "m", "C", "o", "d", "e", "P", "o", "i", "n", "t">>, <<"r", "a", "w">> }
      [] of = "Number" ->
            { <<"i", "s", "F", "i", "n", "i", "t", "e">>, <<"i", "s", "I", "n", "t", "e", "g", "e", "r">>, <<"i", "s", "N", "a", "N">>, <<"i", "s", "S", "a", "f", "e", "I", "n", "t", "e", "g", "e", "r">>, <<"p", "a", "r", "s", "e", "F", "l", "o", "a", "t">>,
              <<"p", "a", "r", "s", "e", "I", "n", "t">> } \cup NumberConstants
      [] OTHER -> {}

\* The name of a constructor
ConstructorName(of) ==
    CASE of = "Object" -> <<"O", "b", "j", "e", "c", "t">>
      [] of = "Array" -> <<"A", "r", "r", "a", "y">>
      [] of = "Function" -> <<"F", "u", "n", "c", "t", "i", "o", "n">>
      [] of = "String" -> <<"S", "t", "r", "i", "n", "g">>
      [] of = "Number" -> <<"N", "u", "m", "b", "e", "r">>
      [] of = "Boolean" -> <<"B", "o", "o", "l", "e", "a", "n">>

Constructor(of) == Native(of, "constructor", ConstructorName(of))

\* The `length` of a built-in function: the number of its formal parameters
NativeLength(env) ==
    CASE env.role = "constructor" -> 1
      [] env.role = "method" /\ env.owner = "Object" ->
            IF env.name \in {kToString, <<"t", "o", "L", "o", "c", "a", "l", "e", "S", "t", "r", "i", "n", "g">>, kValueOf} THEN 0
            ELSE IF env.name \in {<<"_", "_", "d", "e", "f", "i", "n", "e", "G", "e", "t", "t", "e", "r", "_", "_">>, <<"_", "_", "d", "e", "f", "i", "n", "e", "S", "e", "t", "t", "e", "r", "_", "_">>} THEN 2 ELSE 1
      [] env.role = "method" /\ env.owner = "Array" ->
            IF env.name \in {<<"p", "o", "p">>, <<"r", "e", "v", "e", "r", "s", "e">>, <<"s", "h", "i", "f", "t">>, <<"k", "e", "y", "s">>, <<"e", "n", "t", "r", "i", "e", "s">>, <<"v", "a", "l", "u", "e", "s">>,
                             <<"f", "l", "a", "t">>, <<"t", "o", "L", "o", "c", "a", "l", "e", "S", "t", "r", "i", "n", "g">>, kToString, <<"t", "o", "R", "e", "v", "e", "r", "s", "e", "d">>} THEN 0
            ELSE IF env.name \in {<<"c", "o", "p", "y", "W", "i", "t", "h", "i", "n">>, <<"s", "l", "i", "c", "e">>, <<"s", "p", "l", "i", "c", "e">>, <<"t", "o", "S", "p", "l", "i", "c", "e", "d">>, <<"w", "i", "t", "h">>}
                 THEN 2 ELSE 1
      [] env.role = "method" /\ env.owner = "Function" ->
            IF env.name = kToString THEN 0 ELSE IF env.name = <<"a", "p", "p", "l", "y">> THEN 2 ELSE 1
      [] env.role = "method" /\ env.owner = "String" ->
            IF env.name \in {<<"b", "i", "g">>, <<"b", "l", "i", "n", "k">>, <<"b", "o", "l", "d">>, <<"f", "i", "x", "e", "d">>, <<"i", "s", "W", "e", "l", "l", "F", "o", "r", "m", "e", "d">>, <<"i", "t", "a", "l", "i", "c", "s">>,
                             <<"n", "o", "r", "m", "a", "l", "i", "z", "e">>, <<"s", "m", "a", "l", "l">>, <<"s", "t", "r", "i", "k", "e">>, <<"s", "u", "b">>, <<"s", "u", "p">>, kToString,
                             <<"t", "o", "W", "e", "l", "l", "F", "o", "r", "m", "e", "d">>, <<"t", "r", "i", "m">>, <<"t", "r", "i", "m", "S", "t", "a", "r", "t">>, <<"t", "r", "i", "m", "E", "n", "d">>,
                             <<"t", "o", "L", "o", "c", "a", "l", "e", "L", "o", "w", "e", "r", "C", "a", "s", "e">>, <<"t", "o", "L", "o", "c", "a", "l", "e", "U", "p", "p", "e", "r", "C", "a", "s", "e">>, <<"t", "o", "L", "o", "w", "e", "r", "C", "a", "s", "e">>,
                             <<"t", "o", "U", "p", "p", "e", "r", "C", "a", "s", "e">>, kValueOf} THEN 0
            ELSE IF env.name \in {<<"r", "e", "p", "l", "a", "c", "e">>, <<"r", "e", "p", "l", "a", "c", "e", "A", "l", "l">>, <<"s", "l", "i", "c", "e">>, <<"s", "p", "l", "i", "t">>, <<"s", "u", "b", "s", "t", "r">>,
                                  <<"s", "u", "b", "s", "t", "r", "i", "n", "g">>} THEN 2 ELSE 1
      [] env.role = "method" /\ env.owner = "Number" ->
            IF env.name \in {kValueOf, <<"t", "o", "L", "o", "c", "a", "l", "e", "S", "t", "r", "i", "n", "g">>} THEN 0 ELSE 1
      [] env.role = "method" /\ env.owner = "Boolean" -> 0
      [] env.role = "static" /\ env.owner = "Object" ->
            IF env.name = <<"d", "e", "f", "i", "n", "e", "P", "r", "o", "p", "e", "r", "t", "y">> THEN 3
            ELSE IF env.name \in {<<"a", "s", "s", "i", "g", "n">>, <<"c", "r", "e", "a", "t", "e">>, <<"d", "e", "f", "i", "n", "e", "P", "r", "o", "p", "e", "r", "t", "i", "e", "s">>,
                                  <<"g", "e", "t", "O", "w", "n", "P", "r", "o", "p", "e", "r", "t", "y", "D", "e", "s", "c", "r", "i", "p", "t", "o", "r">>, <<"h", "a", "s", "O", "w", "n">>, <<"i", "s">>,
                                  <<"s", "e", "t", "P", "r", "o", "t", "o", "t", "y", "p", "e", "O", "f">>} THEN 2 ELSE 1
      [] env.role = "static" /\ env.owner = "Array" -> IF env.name = <<"o", "f">> THEN 0 ELSE 1
      [] env.role = "static" /\ env.owner = "String" -> 1
      [] env.role = "static" /\ env.owner = "Number" -> IF env.name = <<"p", "a", "r", "s", "e", "I", "n", "t">> THEN 2 ELSE 1

\* The `length` of a function: the callbacks are () => 'L', () => undefined
\* and (result) => ..., the link decoration is (model, _, __) => ...
FunctionLength(fn) ==
    CASE fn.f = "native" -> NativeLength(fn.env)
      [] fn.f = "callerHook" -> 1
      [] fn.f = "linkDecoration" -> 3
      [] OTHER -> 0

\* The `name` of a function: the link decoration is `const postProcess = ...`,
\* the caller's callbacks are anonymous
FunctionName(fn) ==
    CASE fn.f = "native" -> fn.env.name
      [] fn.f = "linkDecoration" -> <<"p", "o", "s", "t", "P", "r", "o", "c", "e", "s", "s">>
      [] OTHER -> <<>>

\* The keys '0', '1', ... of the elements of a sequence
IndexKeys(a) == {NatToString(i) : i \in 0..(Len(a) - 1)}

\* The element of a sequence under one of its index keys
ElementAt(a, key) == a[(CHOOSE i \in 0..(Len(a) - 1) : NatToString(i) = key) + 1]

\* [[Prototype]] of an object
Proto(v) ==
    CASE v.k = "object" -> IF "proto" \in DOMAIN v THEN v.proto ELSE ObjectPrototype
      [] v.k = "array" -> ArrayPrototype
      [] v.k = "function" -> FunctionPrototype
      [] v.k = "boxed" /\ v.v.k = "string" -> StringPrototype
      [] v.k = "boxed" /\ v.v.k = "number" -> NumberPrototype
      [] v.k = "boxed" /\ v.v.k = "boolean" -> BooleanPrototype
      [] v.k = "prototype" -> IF v = ObjectPrototype THEN Null ELSE ObjectPrototype

\* Whether key is an own property of an object
HasOwn(v, key) ==
    CASE v.k = "object" -> key \in DOMAIN v.o
      [] v.k = "array" -> key = kLength \/ key \in IndexKeys(v.a)
      [] v.k = "function" ->
            \/ key \in {kLength, <<"n", "a", "m", "e">>}
            \/ /\ v.f = "native"
               /\ v.env.role = "constructor"
               /\ (key = <<"p", "r", "o", "t", "o", "t", "y", "p", "e">> \/ key \in StaticKeys(v.env.owner))
      [] v.k = "boxed" ->
            v.v.k = "string" /\ (key = kLength \/ key \in IndexKeys(v.v.s))
      [] v.k = "prototype" -> key \in PrototypeKeys(v.of)

\* The own properties that are accessors: `__proto__` of Object.prototype, and
\* `caller` and `arguments` of Function.prototype
IsAccessor(holder, key) ==
    \/ holder = ObjectPrototype /\ key = kProto
    \/ holder = FunctionPrototype /\ key \in {<<"c", "a", "l", "l", "e", "r">>, <<"a", "r", "g", "u", "m", "e", "n", "t", "s">>}

\* The own data properties that cannot be written: `length`, `name` and
\* `prototype` of a function, the constants of Number, and the characters and
\* the length of a String object
IsReadOnly(holder, key) ==
    \/ holder.k = "function" /\ key \in {kLength, <<"n", "a", "m", "e">>, <<"p", "r", "o", "t", "o", "t", "y", "p", "e">>} \cup NumberConstants
    \/ holder = FunctionPrototype /\ key \in {kLength, <<"n", "a", "m", "e">>}
    \/ holder.k = "boxed"
    \/ holder = StringPrototype /\ key = kLength

\* The member of a prototype object under one of its keys
PrototypeMember(of, key) ==
    IF key = <<"c", "o", "n", "s", "t", "r", "u", "c", "t", "o", "r">> THEN Constructor(of)
    ELSE IF of = "String" /\ key = <<"t", "r", "i", "m", "L", "e", "f", "t">> THEN Native(of, "method", <<"t", "r", "i", "m", "S", "t", "a", "r", "t">>)
    ELSE IF of = "String" /\ key = <<"t", "r", "i", "m", "R", "i", "g", "h", "t">> THEN Native(of, "method", <<"t", "r", "i", "m", "E", "n", "d">>)
    ELSE Native(of, "method", key)

\* What reading the own property key of holder gives when the read started at
\* receiver: `__proto__` of Object.prototype is an accessor that returns the
\* receiver's prototype, and those of Function.prototype throw.
OwnValue(holder, key, receiver) ==
    CASE holder.k = "object" -> holder.o[key]
      [] holder.k = "array" ->
            IF key = kLength THEN Num(Len(holder.a)) ELSE ElementAt(holder.a, key)
      [] holder.k = "function" ->
            IF key = kLength THEN Num(FunctionLength(holder))
            ELSE IF key = <<"n", "a", "m", "e">> THEN Str(FunctionName(holder))
            ELSE IF key = <<"p", "r", "o", "t", "o", "t", "y", "p", "e">> THEN [k |-> "prototype", of |-> holder.env.owner]
            ELSE IF key \in NumberConstants THEN NumberConstant(key)
            ELSE Native(holder.env.owner, "static", key)
      [] holder.k = "boxed" ->
            IF key = kLength THEN Num(Len(holder.v.s))
            ELSE Str(<<ElementAt(holder.v.s, key)>>)
      [] holder = ObjectPrototype /\ key = kProto -> Proto(receiver)
      [] holder = FunctionPrototype /\ key \in {<<"c", "a", "l", "l", "e", "r">>, <<"a", "r", "g", "u", "m", "e", "n", "t", "s">>} -> Thrown
      [] holder = FunctionPrototype /\ key = <<"n", "a", "m", "e">> -> Str(<<>>)
      [] holder.k = "prototype" /\ key = kLength -> Num(0)
      [] holder.k = "prototype" -> PrototypeMember(holder.of, key)

\* `key in v` for an object v (`in` throws for a primitive; lines 80 and 92
\* test `typeof v === 'object'` before it): an own key of v or of an object on
\* its prototype chain
RECURSIVE In(_, _)
In(key, v) == v # Null /\ (HasOwn(v, key) \/ In(key, Proto(v)))

\* The property read from holder on behalf of receiver, along the prototype chain
RECURSIVE Lookup(_, _, _)
Lookup(holder, key, receiver) ==
    IF holder = Null THEN Undefined
    ELSE IF HasOwn(holder, key) THEN OwnValue(holder, key, receiver)
    ELSE Lookup(Proto(holder), key, receiver)

\* v[key], or v?.[key] where v is undefined or null: a primitive is read as
\* the object it converts to; the result is Thrown when an accessor throws
Get(v, key) ==
    IF Nullish(v) THEN Undefined ELSE Lookup(ToObject(v), key, ToObject(v))

\* Defining or overwriting the own property key of a property map
Put(o, key, value) == [q \in (DOMAIN o) \cup {key} |-> IF q = key THEN value ELSE o[q]]

\* The first object on the chain from p on with an own property key, or null
RECURSIVE FindHolder(_, _)
FindHolder(p, key) ==
    IF p = Null THEN Null
    ELSE IF HasOwn(p, key) THEN p
    ELSE FindHolder(Proto(p), key)

\* The object with the own properties o and the prototype p
AsObject(o, p) == IF p = ObjectPrototype THEN Obj(o) ELSE ObjWithProto(o, p)

\* w[key] = value in strict code, for an object w given as its own properties
\* and its prototype.  The write makes or overwrites an own property, unless
\* the key is found first on the prototype chain as an accessor or as a
\* property that cannot be written: `__proto__` of Object.prototype sets the
\* prototype when the value is an object or null and does nothing otherwise;
\* the others throw.  Nothing is written when the evaluation of the value
\* threw.
SetPropertyVia(w, key, value, holder) ==
    IF value = Thrown THEN [o |-> w.o, proto |-> w.proto, threw |-> TRUE]
    ELSE IF key \in DOMAIN w.o \/ holder = Null
    THEN [o |-> Put(w.o, key, value), proto |-> w.proto, threw |-> FALSE]
    ELSE IF holder = ObjectPrototype /\ key = kProto
    THEN [o |-> w.o,
          proto |-> IF IsObjectType(value) \/ value = Null THEN value ELSE w.proto,
          threw |-> FALSE]
    ELSE IF IsAccessor(holder, key) \/ IsReadOnly(holder, key)
    THEN [o |-> w.o, proto |-> w.proto, threw |-> TRUE]
    ELSE [o |-> Put(w.o, key, value), proto |-> w.proto, threw |-> FALSE]

SetProperty(w, key, value) == SetPropertyVia(w, key, value, FindHolder(w.proto, key))

\* `{ ...v }`: the own enumerable properties of v; the elements of an array and
\* the characters of a string under their indices; nothing for the other
\* primitives, for a missing property, for functions and for the prototypes.
Spread(v) ==
    CASE v.k = "object" -> v.o
      [] v.k = "array" -> [key \in IndexKeys(v.a) |-> ElementAt(v.a, key)]
      [] v.k = "string" -> [key \in IndexKeys(v.s) |-> Str(<<ElementAt(v.s, key)>>)]
      [] v.k = "boxed" /\ v.v.k = "string" ->
            [key \in IndexKeys(v.v.s) |-> Str(<<ElementAt(v.v.s, key)>>)]
      [] OTHER -> <<>>

-----------------------------------------------------------------------------
(* Calls and conversions.  The caller's callbacks are two transformers and a
   postProcess hook; none of them writes to its arguments.  An evaluation
   gives a value or Thrown.  `active` is the set of the built-in methods being
   evaluated, each with its `this`: a method that is reached again with the
   same `this` would recur for ever, which ends in a RangeError. *)

kHooked == <<"h", "o", "o", "k", "e", "d">>
kObjectOpen == <<"[", "o", "b", "j", "e", "c", "t", " ">>

\* The i-th argument of a call
Arg(args, i) == IF i <= Len(args) THEN args[i] ELSE Undefined

\* The tag Object.prototype.toString puts in "[object ...]"
ClassTag(this) ==
    CASE this.k \in {"undefined", "absent"} -> <<"U", "n", "d", "e", "f", "i", "n", "e", "d">>
      [] this.k = "null" -> <<"N", "u", "l", "l">>
      [] IsArray(this) -> <<"A", "r", "r", "a", "y">>
      [] TypeofFunction(this) -> <<"F", "u", "n", "c", "t", "i", "o", "n">>
      [] this.k = "string" \/ this = StringPrototype -> <<"S", "t", "r", "i", "n", "g">>
      [] this.k = "number" \/ this = NumberPrototype -> <<"N", "u", "m", "b", "e", "r">>
      [] this.k = "boolean" \/ this = BooleanPrototype -> <<"B", "o", "o", "l", "e", "a", "n">>
      [] this.k = "boxed" /\ this.v.k = "string" -> <<"S", "t", "r", "i", "n", "g">>
      [] this.k = "boxed" /\ this.v.k = "number" -> <<"N", "u", "m", "b", "e", "r">>
      [] this.k = "boxed" /\ this.v.k = "boolean" -> <<"B", "o", "o", "l", "e", "a", "n">>
      [] OTHER -> <<"O", "b", "j", "e", "c", "t">>

\* The text of a function, as Function.prototype.toString gives it (that of
\* the link decoration depends on the compiler)
SourceText(fn) ==
    CASE fn = FunctionPrototype -> <<"f", "u", "n", "c", "t", "i", "o", "n", " ">> \o <<"(", ")", " ", "{", " ", "[", "n", "a", "t", "i", "v", "e", " ", "c", "o", "d", "e", "]", " ", "}">>
      [] fn.f = "native" -> <<"f", "u", "n", "c", "t", "i", "o", "n", " ">> \o fn.env.name \o <<"(", ")", " ", "{", " ", "[", "n", "a", "t", "i", "v", "e", " ", "c", "o", "d", "e", "]", " ", "}">>
      [] fn.f = "constLit" -> <<"(", ")", " ", "=", ">", " ", "'", "L", "'">>
      [] fn.f = "suppress" -> <<"(", ")", " ", "=", ">", " ", "u", "n", "d", "e", "f", "i", "n", "e", "d">>
      [] fn.f = "callerHook" -> <<"(", "r", "e", "s", "u", "l", "t", ")", " ", "=", ">", " ", "(", "{", " ", ".", ".", ".", "r", "e", "s", "u", "l", "t", ",", " ", "h", "o", "o", "k", "e", "d", ":", " ", "t", "r", "u", "e", " ", "}", ")">>

\* ToString of a primitive
PrimitiveString(p) ==
    CASE p.k = "string" -> p.s
      [] p.k = "number" -> IF IsNamedNumber(p) THEN p.name ELSE (IF p.n < 0 THEN <<"-">> \o NatToString(0 - p.n) ELSE NatToString(p.n))
      [] p.k = "boolean" -> IF p.b THEN <<"t", "r", "u", "e">> ELSE <<"f", "a", "l", "s", "e">>
      [] p.k = "null" -> <<"n", "u", "l", "l">>
      [] p.k \in {"undefined", "absent"} -> <<"u", "n", "d", "e", "f", "i", "n", "e", "d">>

\* The [[StringData]], [[NumberData]] or [[BooleanData]] of `this`, or Thrown
\* when it has none of the kind
ThisData(this, kind) ==
    CASE this.k = kind -> this
      [] this.k = "boxed" /\ this.v.k = kind -> this.v
      [] kind = "string" /\ this = StringPrototype -> Str(<<>>)
      [] kind = "number" /\ this = NumberPrototype -> Num(0)
      [] kind = "boolean" /\ this = BooleanPrototype -> Bool(FALSE)
      [] OTHER -> Thrown

\* ToLength of a number: the model joins no array-like of an infinite length
ToLength(n) ==
    CASE ~IsNamedNumber(n) -> IF n.n < 0 THEN 0 ELSE n.n
      [] n = NaN \/ n.name[1] = "-" -> 0
      [] n = NumberConstant(<<"M", "I", "N", "_", "V", "A", "L", "U", "E">>) \/ n = NumberConstant(<<"E", "P", "S", "I", "L", "O", "N">>) -> 0

\* ToIntegerOrInfinity of a number, with kMaxInt + 1 for an infinity and for
\* the named numbers that are larger than any string is long
IntegerOf(n) ==
    IF ~IsNamedNumber(n) THEN n.n
    ELSE IF n \in {NaN, NumberConstant(<<"M", "I", "N", "_", "V", "A", "L", "U", "E">>), NumberConstant(<<"E", "P", "S", "I", "L", "O", "N">>)} THEN 0
    ELSE IF n.name[1] = "-" THEN 0 - (kMaxInt + 1)
    ELSE kMaxInt + 1

\* The body of the post-processor generateDataModel creates, as far as it
\* writes nothing: called with a model that has no link to decorate
LinkDecorationUnchanged(env, model, link) ==
    CASE Nullish(model) \/ link = Thrown -> Thrown
      [] ~(Truthy(link) /\ Truthy(env.addRefToLink) /\ Truthy(env.refParam)) -> model
      [] ~IsObjectType(model) -> Thrown

RECURSIVE Call(_, _, _, _)
RECURSIVE CallNative(_, _, _, _, _, _, _, _, _)
RECURSIVE ToPrimitive(_, _, _)
RECURSIVE ToStringValue(_, _)
RECURSIVE ToNumber(_, _)
RECURSIVE JoinFrom(_, _, _, _, _, _)

\* method.call(this, ...args) for a method read from an object: Thrown when
\* the read threw, `otherwise` when what was read is not a function
Invoke(method, this, args, otherwise, active) ==
    IF method = Thrown THEN Thrown
    ELSE IF ~TypeofFunction(method) THEN otherwise
    ELSE Call(method, this, args, active)

\* What a step of OrdinaryToPrimitive keeps of what its method gave: a
\* primitive (or that the call threw), `otherwise` for an object
Primitive(r, otherwise) == IF IsObjectType(r) THEN otherwise ELSE r

\* One step of OrdinaryToPrimitive, after a step that gave `first`: unless
\* that was a primitive already, the method is called if it is a function.
TryMethod(O, first, method, otherwise, active) ==
    IF first # Absent THEN first
    ELSE Primitive(Invoke(method, O, <<>>, otherwise, active), otherwise)

\* ToPrimitive of an object: toString then valueOf for the hint "string",
\* valueOf then toString for the hint "number"; a TypeError when neither
\* gives a primitive
ToPrimitive(O, hint, active) ==
    TryMethod(O,
              TryMethod(O, Absent, Get(O, IF hint = "string" THEN kToString ELSE kValueOf),
                        Absent, active),
              Get(O, IF hint = "string" THEN kValueOf ELSE kToString), Thrown, active)

\* The string of what ToPrimitive gave
StringOf(p) == IF p = Thrown THEN Thrown ELSE Str(PrimitiveString(p))

\* ToString
ToStringValue(v, active) ==
    IF v = Thrown THEN Thrown
    ELSE IF IsObjectType(v) THEN StringOf(ToPrimitive(v, "string", active))
    ELSE Str(PrimitiveString(v))

\* ToNumber
ToNumber(v, active) ==
    CASE v = Thrown -> Thrown
      [] v.k \in {"undefined", "absent"} -> NaN
      [] v.k = "null" -> Num(0)
      [] v.k = "boolean" -> IF v.b THEN Num(1) ELSE Num(0)
      [] v.k = "number" -> v
      [] v.k = "string" -> StringToNumber(v.s)
      [] OTHER -> ToNumber(ToPrimitive(v, "number", active), active)

\* The concatenation of two strings, each the outcome of a conversion
Concat(a, b) == IF a = Thrown \/ b = Thrown THEN Thrown ELSE Str(a.s \o b.s)

\* Array.prototype.join from index i on, for an array-like of length len and
\* the string acc of the elements before i: an element that is undefined or
\* null adds nothing
JoinFrom(O, i, len, sep, acc, active) ==
    IF acc = Thrown \/ i >= len THEN acc
    ELSE JoinFrom(O, i + 1, len, sep,
                  Concat(Concat(acc, Str(IF i > 0 THEN sep ELSE <<>>)),
                         ToStringValue(IF Nullish(Get(O, NatToString(i))) THEN Str(<<>>)
                                       ELSE Get(O, NatToString(i)), active)),
                  active)

\* Array.prototype.join: the length, then the separator, then the elements
Join(O, sep, length, active) ==
    IF length = Thrown \/ sep = Thrown THEN Thrown
    ELSE JoinFrom(O, 0, ToLength(length), sep.s, Str(<<>>), active)

\* Function(p1, ..., body) for the strings of its arguments: the arguments are
\* converted to strings, the parameters are joined with commas and parsed as a
\* parameter list, and the last string is parsed as a function body.  The
\* model has no parser of JavaScript: it decides only the calls that are
\* certain to be rejected.  A string "[object Word]" (what
\* Object.prototype.toString returns: a bracket, the name object and a word
\* of letters right after it) is no body, and it is no parameter when the
\* parameters before it are made of letters, digits, `_`, `$`, spaces and
\* commas, which open no comment and no string; after such parameters a run
\* of digits is no parameter either.  "[object ]" and "[object ,a]" are an
\* array literal and an array pattern: Function accepts them, and the function
\* it then returns is not a value of the model.
DynamicFunction(strs) ==
    LET Letter(ch) == IsAscii(ch) /\ (CharCode(ch) \in 65..90 \/ CharCode(ch) \in 97..122)
        Tagged(s) ==
            /\ Len(s) > Len(kObjectOpen) + 1
            /\ SubSeq(s, 1, Len(kObjectOpen)) = kObjectOpen
            /\ s[Len(s)] = "]"
            /\ \A n \in (Len(kObjectOpen) + 1)..(Len(s) - 1) : Letter(s[n])
        Plain(s) ==
            \A n \in 1..Len(s) :
                \/ Letter(s[n])
                \/ \E d \in 1..Len(Digits) : Digits[d] = s[n]
                \/ s[n] \in {"_", "$", " ", ","}
    IN
    CASE \E i \in DOMAIN strs : strs[i] = Thrown -> Thrown
      [] (\A i \in DOMAIN strs : strs[i] # Thrown)
         /\ strs # <<>> /\ Tagged(strs[Len(strs)].s) -> Thrown
      [] (\A i \in DOMAIN strs : strs[i] # Thrown)
         /\ (\E i \in 1..(Len(strs) - 1) :
                /\ Tagged(strs[i].s) \/ IsDigits(strs[i].s)
                /\ \A j \in 1..(i - 1) : Plain(strs[j].s)) -> Thrown

\* A constructor called as a function; str1 and num1 are the string and the
\* number the first argument converts to, strs the strings of all of them
CallConstructor(of, args, str1, num1, strs) ==
    CASE of = "Object" ->
            IF Nullish(Arg(args, 1)) THEN Obj(<<>>) ELSE ToObject(Arg(args, 1))
      [] of = "Array" ->
            (CASE Len(args) # 1 \/ args[1].k # "number" -> Arr(args)
               [] Len(args) = 1 /\ args[1] = Num(0) -> Arr(<<>>)
               [] Len(args) = 1 /\ IsNamedNumber(args[1]) -> Thrown
               [] Len(args) = 1 /\ args[1].k = "number" /\ ~IsNamedNumber(args[1])
                    /\ args[1].n < 0 -> Thrown)
      [] of = "String" -> IF args = <<>> THEN Str(<<>>) ELSE str1
      [] of = "Number" -> IF args = <<>> THEN Num(0) ELSE num1
      [] of = "Boolean" -> Bool(Truthy(Arg(args, 1)))
      [] of = "Function" -> DynamicFunction(strs)

\* The objects on the prototype chain from p on
RECURSIVE ProtoChain(_)
ProtoChain(p) == IF p = Null THEN {} ELSE {p} \cup ProtoChain(Proto(p))

\* A method of Object.prototype; key is the property key its first argument
\* converts to
CallObjectMethod(name, this, args, key, active) ==
    CASE name = kToString -> Str(kObjectOpen \o ClassTag(this) \o <<"]">>)
      [] name = <<"i", "s", "P", "r", "o", "t", "o", "t", "y", "p", "e", "O", "f">> /\ ~IsObjectType(Arg(args, 1)) -> Bool(FALSE)
      [] name = <<"i", "s", "P", "r", "o", "t", "o", "t", "y", "p", "e", "O", "f">> /\ Nullish(this) -> Thrown
      [] name = <<"i", "s", "P", "r", "o", "t", "o", "t", "y", "p", "e", "O", "f">> /\ IsObjectType(Arg(args, 1)) /\ ~Nullish(this)
            /\ (this.k = "prototype" \/ ToObject(this) \notin ProtoChain(Proto(Arg(args, 1)))) ->
            Bool(ToObject(this) \in ProtoChain(Proto(Arg(args, 1))))
      [] name # <<"i", "s", "P", "r", "o", "t", "o", "t", "y", "p", "e", "O", "f">> /\ Nullish(this) -> Thrown
      [] name = kValueOf -> ToObject(this)
      [] name = <<"t", "o", "L", "o", "c", "a", "l", "e", "S", "t", "r", "i", "n", "g">> -> Invoke(Get(this, kToString), this, <<>>, Thrown, active)
      [] name \in {<<"h", "a", "s", "O", "w", "n", "P", "r", "o", "p", "e", "r", "t", "y">>, <<"p", "r", "o", "p", "e", "r", "t", "y", "I", "s", "E", "n", "u", "m", "e", "r", "a", "b", "l", "e">>, <<"_", "_", "l", "o", "o", "k", "u", "p", "G", "e", "t", "t", "e", "r", "_", "_">>, <<"_", "_", "l", "o", "o", "k", "u", "p", "S", "e", "t", "t", "e", "r", "_", "_">>}
            /\ key = Thrown -> Thrown
      [] name = <<"h", "a", "s", "O", "w", "n", "P", "r", "o", "p", "e", "r", "t", "y">> -> Bool(HasOwn(ToObject(this), key.s))
      [] name = <<"p", "r", "o", "p", "e", "r", "t", "y", "I", "s", "E", "n", "u", "m", "e", "r", "a", "b", "l", "e">> ->
            Bool(/\ HasOwn(ToObject(this), key.s)
                 /\ ToObject(this).k \in {"object", "array", "boxed"}
                 /\ key.s # kLength)
      [] name \in {<<"_", "_", "d", "e", "f", "i", "n", "e", "G", "e", "t", "t", "e", "r", "_", "_">>, <<"_", "_", "d", "e", "f", "i", "n", "e", "S", "e", "t", "t", "e", "r", "_", "_">>} /\ ~TypeofFunction(Arg(args, 2)) -> Thrown
      [] name \in {<<"_", "_", "l", "o", "o", "k", "u", "p", "G", "e", "t", "t", "e", "r", "_", "_">>, <<"_", "_", "l", "o", "o", "k", "u", "p", "S", "e", "t", "t", "e", "r", "_", "_">>}
            /\ key.s \notin {kProto, <<"c", "a", "l", "l", "e", "r">>, <<"a", "r", "g", "u", "m", "e", "n", "t", "s">>} -> Undefined
      [] name \in {<<"_", "_", "l", "o", "o", "k", "u", "p", "G", "e", "t", "t", "e", "r", "_", "_">>, <<"_", "_", "l", "o", "o", "k", "u", "p", "S", "e", "t", "t", "e", "r", "_", "_">>} /\ ~In(key.s, ToObject(this)) -> Undefined

\* A method of Array.prototype, for `this` an object; str1 is the string the
\* first argument converts to.  join reads the length, then the separator
\* (a comma when the argument is undefined), then the elements; the methods
\* that call their first argument throw when it is no function.
CallArrayMethod(name, O, args, str1, active) ==
    CASE name = kToString ->
            Invoke(Get(O, <<"j", "o", "i", "n">>), O, <<>>, Str(kObjectOpen \o ClassTag(O) \o <<"]">>),
                   active)
      [] name = <<"j", "o", "i", "n">> ->
            Join(O, IF Arg(args, 1) = Undefined THEN Str(<<",">>) ELSE str1,
                 ToNumber(Get(O, kLength), active), active)
      [] name \in { <<"e", "v", "e", "r", "y">>, <<"f", "i", "l", "t", "e", "r">>, <<"f", "i", "n", "d">>, <<"f", "i", "n", "d", "I", "n", "d", "e", "x">>, <<"f", "i", "n", "d", "L", "a", "s", "t">>, <<"f", "i", "n", "d", "L", "a", "s", "t", "I", "n", "d", "e", "x">>,
                    <<"f", "l", "a", "t", "M", "a", "p">>, <<"f", "o", "r", "E", "a", "c", "h">>, <<"m", "a", "p">>, <<"r", "e", "d", "u", "c", "e">>, <<"r", "e", "d", "u", "c", "e", "R", "i", "g", "h", "t">>, <<"s", "o", "m", "e">> }
            /\ ~TypeofFunction(Arg(args, 1)) -> Thrown

\* A method of Function.prototype
CallFunctionMethod(name, this, args, active) ==
    CASE ~TypeofFunction(this) -> Thrown
      [] TypeofFunction(this) /\ name = kToString -> Str(SourceText(this))
      [] TypeofFunction(this) /\ name = <<"a", "p", "p", "l", "y">>
            /\ ~Nullish(Arg(args, 2)) /\ ~IsObjectType(Arg(args, 2)) -> Thrown
      [] TypeofFunction(this)
            /\ \/ name = <<"c", "a", "l", "l">>
               \/ name = <<"a", "p", "p", "l", "y">> /\ (Nullish(Arg(args, 2)) \/ Arg(args, 2).k = "array") ->
            Call(this, Arg(args, 1),
                 IF name = <<"c", "a", "l", "l">> THEN (IF args = <<>> THEN <<>> ELSE Tail(args))
                 ELSE IF Nullish(Arg(args, 2)) THEN <<>> ELSE Arg(args, 2).a,
                 active)

\* A method of String.prototype, Number.prototype or Boolean.prototype that
\* needs a `this` of its kind: toString and valueOf, and the conversions of a
\* number (a number of the model has the digits of its integer; a radix or a
\* number of digits is not modelled)
CallPrimitiveMethod(of, name, this, args) ==
    CASE Nullish(this) -> Thrown
      [] of = "String" -> ThisData(this, "string")
      [] of = "Boolean" /\ name = kValueOf -> ThisData(this, "boolean")
      [] of = "Boolean" /\ name = kToString -> StringOf(ThisData(this, "boolean"))
      [] of = "Number" /\ ThisData(this, "number") = Thrown -> Thrown
      [] of = "Number" /\ name = kValueOf -> ThisData(this, "number")
      [] of = "Number" /\ name \in {kToString, <<"t", "o", "P", "r", "e", "c", "i", "s", "i", "o", "n">>} /\ Arg(args, 1) = Undefined ->
            StringOf(ThisData(this, "number"))
      [] of = "Number" /\ name = <<"t", "o", "F", "i", "x", "e", "d">> /\ Arg(args, 1) = Undefined
            /\ ThisData(this, "number") # Thrown
            /\ (~IsNamedNumber(ThisData(this, "number"))
                \/ ThisData(this, "number").name \in {<<"N", "a", "N">>, kInfinity, <<"-", "I", "n", "f", "i", "n", "i", "t", "y">>}) ->
            StringOf(ThisData(this, "number"))

\* The strings of a sequence of conversions, one after the other, after acc
RECURSIVE ConcatFrom(_, _, _)
ConcatFrom(acc, strs, i) ==
    IF i > Len(strs) THEN acc ELSE ConcatFrom(Concat(acc, strs[i]), strs, i + 1)

\* s.split(sep) for a separator that is not empty
RECURSIVE SplitBy(_, _)
SplitBy(s, sep) ==
    IF \A i \in 0..(Len(s) - Len(sep)) : SubSeq(s, i + 1, i + Len(sep)) # sep THEN <<s>>
    ELSE <<SubSeq(s, 1, CHOOSE i \in 0..(Len(s) - Len(sep)) :
                            /\ SubSeq(s, i + 1, i + Len(sep)) = sep
                            /\ \A j \in 0..(i - 1) : SubSeq(s, j + 1, j + Len(sep)) # sep)>>
         \o SplitBy(SubSeq(s, Len(sep) + 1 + CHOOSE i \in 0..(Len(s) - Len(sep)) :
                                /\ SubSeq(s, i + 1, i + Len(sep)) = sep
                                /\ \A j \in 0..(i - 1) : SubSeq(s, j + 1, j + Len(sep)) # sep,
                           Len(s)), sep)

\* A method of String.prototype that begins with ToString(this), for `this`
\* neither undefined nor null: S is that string, str1, str2, num1 and num2 are
\* the first two arguments as ToString and ToNumber convert them, strs is
\* every argument as ToString converts it; a method converts the arguments it
\* uses.  Letters are those of ASCII.  The methods that take a pattern (match,
\* matchAll, replace, replaceAll, search) or a locale (localeCompare,
\* toLocaleLowerCase, toLocaleUpperCase) are not modelled.  A repetition or a
\* padding is built up to kMaxBuilt characters; the engine builds no string
\* of more than kMaxStringLength (2^29 - 24) characters.
CallStringMethod(name, S, args, str1, str2, num1, num2, strs) ==
    LET len == Len(S.s)
        kMaxBuilt == 256
        kMaxStringLength == 536870888
        Clamp(n, lo, hi) == IF n < lo THEN lo ELSE IF n > hi THEN hi ELSE n
        \* a position argument, and one that counts from the end when negative
        Position(num) == Clamp(IntegerOf(num), 0, len)
        Relative(num) ==
            IF IntegerOf(num) < 0 THEN Clamp(len + IntegerOf(num), 0, len)
            ELSE Clamp(IntegerOf(num), 0, len)
        Between(from, to) == Str(SubSeq(S.s, from + 1, to))
        \* where the search string occurs from a position on
        Hits(search, from, to) ==
            {i \in from..to : i + Len(search) <= len /\ SubSeq(S.s, i + 1, i + Len(search)) = search}
        Plain(ch) == IsAscii(ch) \/ ch \in WhiteSpace
        Lower(ch) == IF IsAscii(ch) /\ CharCode(ch) \in 65..90 THEN Ascii[CharCode(ch)] ELSE ch
        Upper(ch) == IF IsAscii(ch) /\ CharCode(ch) \in 97..122 THEN Ascii[CharCode(ch) - 63] ELSE ch
        Tag == CASE name = <<"a", "n", "c", "h", "o", "r">> \/ name = kLink -> <<"a">>
                 [] name = <<"b", "o", "l", "d">> -> <<"b">>
                 [] name = <<"f", "i", "x", "e", "d">> -> <<"t", "t">>
                 [] name = <<"i", "t", "a", "l", "i", "c", "s">> -> <<"i">>
                 [] name \in {<<"f", "o", "n", "t", "c", "o", "l", "o", "r">>, <<"f", "o", "n", "t", "s", "i", "z", "e">>} -> <<"f", "o", "n", "t">>
                 [] OTHER -> name
        Attribute == CASE name = <<"a", "n", "c", "h", "o", "r">> -> <<"n", "a", "m", "e">>
                       [] name = kLink -> <<"h", "r", "e", "f">>
                       [] name = <<"f", "o", "n", "t", "c", "o", "l", "o", "r">> -> <<"c", "o", "l", "o", "r">>
                       [] name = <<"f", "o", "n", "t", "s", "i", "z", "e">> -> <<"s", "i", "z", "e">>
        Escaped(v) == ConcatFrom(Str(<<>>),
                                 [i \in 1..Len(v) |-> Str(IF v[i] = "\"" THEN <<"&", "q", "u", "o", "t", ";">> ELSE <<v[i]>>)],
                                 1).s
        Filler == IF Arg(args, 2) = Undefined THEN <<" ">> ELSE str2.s
        Padding(n) == [i \in 1..n |-> Filler[((i - 1) % Len(Filler)) + 1]]
        Limit == IF Arg(args, 2) = Undefined THEN (kMaxInt + 1)
                 ELSE IF ~IsNamedNumber(num2) THEN (IF num2.n < 0 THEN (kMaxInt + 1) ELSE num2.n)
                 ELSE IF num2 = NumberConstant(<<"M", "A", "X", "_", "S", "A", "F", "E", "_", "I", "N", "T", "E", "G", "E", "R">>) THEN (kMaxInt + 1)
                 ELSE IF num2 = NumberConstant(<<"M", "I", "N", "_", "S", "A", "F", "E", "_", "I", "N", "T", "E", "G", "E", "R">>) THEN 1
                 ELSE 0
        Pieces == IF Arg(args, 1) = Undefined THEN <<S.s>>
                  ELSE IF len = 0 THEN (IF str1.s = <<>> THEN <<>> ELSE <<S.s>>)
                  ELSE IF str1.s = <<>> THEN [i \in 1..len |-> <<S.s[i]>>]
                  ELSE SplitBy(S.s, str1.s)
    IN
    CASE S = Thrown -> Thrown
      [] name = <<"t", "r", "i", "m">> -> Str(Trim(S.s))
      [] name = <<"t", "r", "i", "m", "S", "t", "a", "r", "t">> -> Str(TrimStart(S.s))
      [] name = <<"t", "r", "i", "m", "E", "n", "d">> -> Str(TrimEnd(S.s))
      [] name = <<"t", "o", "L", "o", "w", "e", "r", "C", "a", "s", "e">> /\ (\A i \in 1..len : Plain(S.s[i])) ->
            Str([i \in 1..len |-> Lower(S.s[i])])
      [] name = <<"t", "o", "U", "p", "p", "e", "r", "C", "a", "s", "e">> /\ (\A i \in 1..len : Plain(S.s[i])) ->
            Str([i \in 1..len |-> Upper(S.s[i])])
      [] name = <<"t", "o", "W", "e", "l", "l", "F", "o", "r", "m", "e", "d">> -> S
      [] name = <<"i", "s", "W", "e", "l", "l", "F", "o", "r", "m", "e", "d">> -> Bool(TRUE)
      [] name = <<"n", "o", "r", "m", "a", "l", "i", "z", "e">> /\ Arg(args, 1) # Undefined /\ str1 = Thrown -> Thrown
      [] name = <<"n", "o", "r", "m", "a", "l", "i", "z", "e">> /\ Arg(args, 1) # Undefined /\ str1 # Thrown
            /\ str1.s \notin {<<"N", "F", "C">>, <<"N", "F", "D">>, <<"N", "F", "K", "C">>, <<"N", "F", "K", "D">>} -> Thrown
      [] name = <<"n", "o", "r", "m", "a", "l", "i", "z", "e">>
            /\ (Arg(args, 1) = Undefined \/ str1 \in {Str(<<"N", "F", "C">>), Str(<<"N", "F", "D">>), Str(<<"N", "F", "K", "C">>), Str(<<"N", "F", "K", "D">>)})
            /\ (\A i \in 1..len : IsAscii(S.s[i]) \/ S.s[i] \in {"\t", "\n", "\r", "\f"}) -> S
      [] name = <<"c", "o", "n", "c", "a", "t">> -> ConcatFrom(S, strs, 1)
      [] name \in {<<"b", "i", "g">>, <<"b", "l", "i", "n", "k">>, <<"b", "o", "l", "d">>, <<"f", "i", "x", "e", "d">>, <<"i", "t", "a", "l", "i", "c", "s">>, <<"s", "m", "a", "l", "l">>, <<"s", "t", "r", "i", "k", "e">>, <<"s", "u", "b">>, <<"s", "u", "p">>} ->
            Str(<<"<">> \o Tag \o <<">">> \o S.s \o <<"<", "/">> \o Tag \o <<">">>)
      [] name \in {<<"a", "n", "c", "h", "o", "r">>, <<"f", "o", "n", "t", "c", "o", "l", "o", "r">>, <<"f", "o", "n", "t", "s", "i", "z", "e">>, kLink} ->
            IF str1 = Thrown THEN Thrown
            ELSE Str(<<"<">> \o Tag \o <<" ">> \o Attribute \o <<"=", "\"">> \o Escaped(str1.s)
                     \o <<"\"", ">">> \o S.s \o <<"<", "/">> \o Tag \o <<">">>)
      [] name = <<"c", "h", "a", "r", "A", "t">> ->
            IF num1 = Thrown THEN Thrown
            ELSE IF IntegerOf(num1) \in 0..(len - 1) THEN Str(<<S.s[IntegerOf(num1) + 1]>>)
            ELSE Str(<<>>)
      [] name = <<"a", "t">> ->
            IF num1 = Thrown THEN Thrown
            ELSE IF IntegerOf(num1) \in 0..(len - 1) THEN Str(<<S.s[IntegerOf(num1) + 1]>>)
            ELSE IF IntegerOf(num1) < 0 /\ len + IntegerOf(num1) >= 0
            THEN Str(<<S.s[len + IntegerOf(num1) + 1]>>)
            ELSE Undefined
      [] name \in {<<"c", "h", "a", "r", "C", "o", "d", "e", "A", "t">>, <<"c", "o", "d", "e", "P", "o", "i", "n", "t", "A", "t">>} ->
            IF num1 = Thrown THEN Thrown
            ELSE IF IntegerOf(num1) \notin 0..(len - 1)
            THEN (IF name = <<"c", "h", "a", "r", "C", "o", "d", "e", "A", "t">> THEN NaN ELSE Undefined)
            ELSE (CASE IsAscii(S.s[IntegerOf(num1) + 1]) -> Num(CharCode(S.s[IntegerOf(num1) + 1])))
      [] name \in {<<"i", "n", "c", "l", "u", "d", "e", "s">>, <<"i", "n", "d", "e", "x", "O", "f">>} ->
            IF str1 = Thrown \/ num2 = Thrown THEN Thrown
            ELSE IF name = <<"i", "n", "c", "l", "u", "d", "e", "s">> THEN Bool(Hits(str1.s, Position(num2), len) # {})
            ELSE IF Hits(str1.s, Position(num2), len) = {} THEN Num(0 - 1)
            ELSE Num(CHOOSE i \in Hits(str1.s, Position(num2), len) :
                        \A j \in Hits(str1.s, Position(num2), len) : i <= j)
      [] name = <<"l", "a", "s", "t", "I", "n", "d", "e", "x", "O", "f">> ->
            IF str1 = Thrown \/ num2 = Thrown THEN Thrown
            ELSE IF Hits(str1.s, 0, IF num2 = NaN THEN len ELSE Position(num2)) = {} THEN Num(0 - 1)
            ELSE Num(CHOOSE i \in Hits(str1.s, 0, IF num2 = NaN THEN len ELSE Position(num2)) :
                        \A j \in Hits(str1.s, 0, IF num2 = NaN THEN len ELSE Position(num2)) : j <= i)
      [] name = <<"s", "t", "a", "r", "t", "s", "W", "i", "t", "h">> ->
            IF str1 = Thrown \/ num2 = Thrown THEN Thrown
            ELSE Bool(Position(num2) \in Hits(str1.s, Position(num2), Position(num2)))
      [] name = <<"e", "n", "d", "s", "W", "i", "t", "h">> ->
            IF str1 = Thrown \/ num2 = Thrown THEN Thrown
            ELSE Bool(\E i \in Hits(str1.s, 0, len) :
                        i + Len(str1.s) = IF Arg(args, 2) = Undefined THEN len ELSE Position(num2))
      [] name = <<"s", "l", "i", "c", "e">> ->
            IF num1 = Thrown \/ num2 = Thrown THEN Thrown
            ELSE Between(Relative(num1), IF Arg(args, 2) = Undefined THEN len ELSE Relative(num2))
      [] name = <<"s", "u", "b", "s", "t", "r", "i", "n", "g">> ->
            IF num1 = Thrown \/ num2 = Thrown THEN Thrown
            ELSE IF Position(num1) <= (IF Arg(args, 2) = Undefined THEN len ELSE Position(num2))
            THEN Between(Position(num1), IF Arg(args, 2) = Undefined THEN len ELSE Position(num2))
            ELSE Between(Position(num2), Position(num1))
      [] name = <<"s", "u", "b", "s", "t", "r">> ->
            IF num1 = Thrown \/ num2 = Thrown THEN Thrown
            ELSE Between(Relative(num1),
                         IF Arg(args, 2) = Undefined THEN len
                         ELSE Clamp(Relative(num1) + Position(num2), 0, len))
      [] name = <<"r", "e", "p", "e", "a", "t">> ->
            IF num1 = Thrown THEN Thrown
            ELSE IF IntegerOf(num1) < 0 \/ num1 = NamedNumber(kInfinity) THEN Thrown
            ELSE IF IntegerOf(num1) = 0 \/ len = 0 THEN Str(<<>>)
            ELSE (CASE IntegerOf(num1) <= kMaxBuilt \div len ->
                          Str([i \in 1..(IntegerOf(num1) * len) |-> S.s[((i - 1) % len) + 1]])
                    [] IntegerOf(num1) > kMaxStringLength \div len -> Thrown)
      [] name \in {<<"p", "a", "d", "S", "t", "a", "r", "t">>, <<"p", "a", "d", "E", "n", "d">>} ->
            IF num1 = Thrown THEN Thrown
            ELSE IF IntegerOf(num1) <= len THEN S
            ELSE IF Arg(args, 2) # Undefined /\ str2 = Thrown THEN Thrown
            ELSE IF Filler = <<>> THEN S
            ELSE (CASE IntegerOf(num1) - len <= kMaxBuilt ->
                          Str(IF name = <<"p", "a", "d", "S", "t", "a", "r", "t">> THEN Padding(IntegerOf(num1) - len) \o S.s
                              ELSE S.s \o Padding(IntegerOf(num1) - len))
                    [] IntegerOf(num1) > kMaxStringLength -> Thrown)
      [] name = <<"s", "p", "l", "i", "t">> ->
            IF str1 = Thrown \/ num2 = Thrown THEN Thrown
            ELSE Arr([i \in 1..(IF Limit < Len(Pieces) THEN Limit ELSE Len(Pieces)) |->
                        Str(Pieces[i])])

\* The array-index keys of a set of keys, in ascending order
RECURSIVE SortedIndices(_)
SortedIndices(keys) ==
    IF keys = {} THEN <<>>
    ELSE <<CHOOSE k \in keys : \A j \in keys : j = k \/ IndexLess(k, j)>>
         \o SortedIndices(keys \ {CHOOSE k \in keys : \A j \in keys : j = k \/ IndexLess(k, j)})

\* The own enumerable string keys of a value in the order Object.keys lists
\* them: the array indices in ascending order, then the other keys in the
\* order they were added.  An object of the model does not record that order:
\* its keys are listed when at most one of them is no array index.
OwnEnumerableKeys(v) ==
    SortedIndices({key \in DOMAIN Spread(v) : IsArrayIndex(key)})
        \o (IF \E key \in DOMAIN Spread(v) : ~IsArrayIndex(key)
            THEN <<CHOOSE key \in DOMAIN Spread(v) : ~IsArrayIndex(key)>>
            ELSE <<>>)

\* A static method of a constructor; str1 is the string the first argument
\* converts to, key the property key the second converts to, num2 the number
\* the second converts to (parseInt takes it as ToInt32 does: modulo 2^32, so
\* that 2^53 - 1 is -1 and every other named number is 0).  A call has no
\* value here when it writes to an object it is given (assign with a source
\* that has properties, setPrototypeOf and defineProperties on an object), when
\* it lists the keys of an object with more than one key that is no array
\* index, or when it reads the descriptor of a member of a function or of a
\* prototype object.  freeze, seal and preventExtensions return their
\* argument, and that the object is closed from then on is not recorded:
\* isFrozen, isSealed, isExtensible and the descriptors answer for an object
\* that was never closed.  Two objects the caller made are the same object to
\* Object.is only when they can be told apart.
CallStatic(of, name, args, str1, key, num2) ==
    LET Descriptor(value, writable, enumerable, configurable) ==
            Obj((<<"v", "a", "l", "u", "e">> :> value) @@ (<<"w", "r", "i", "t", "a", "b", "l", "e">> :> Bool(writable))
                @@ (<<"e", "n", "u", "m", "e", "r", "a", "b", "l", "e">> :> Bool(enumerable))
                @@ (<<"c", "o", "n", "f", "i", "g", "u", "r", "a", "b", "l", "e">> :> Bool(configurable)))
        DescriptorOf(O, q) ==
            IF O.k = "object" THEN Descriptor(O.o[q], TRUE, TRUE, TRUE)
            ELSE IF O.k = "array"
            THEN (IF q = kLength THEN Descriptor(Num(Len(O.a)), TRUE, FALSE, FALSE)
                  ELSE Descriptor(ElementAt(O.a, q), TRUE, TRUE, TRUE))
            ELSE (IF q = kLength THEN Descriptor(Num(Len(O.v.s)), FALSE, FALSE, FALSE)
                  ELSE Descriptor(Str(<<ElementAt(O.v.s, q)>>), FALSE, TRUE, FALSE))
        Described(O) ==
            \/ O.k \in {"object", "array"}
            \/ O.k = "boxed" /\ O.v.k = "string"
        Entries == IF Arg(args, 1).k = "array" THEN Arg(args, 1).a ELSE <<>>
    IN
    CASE of = "Array" /\ name = <<"i", "s", "A", "r", "r", "a", "y">> -> Bool(IsArray(Arg(args, 1)))
      [] of = "Array" /\ name = <<"o", "f">> -> Arr(args)
      [] of = "Array" /\ name = <<"f", "r", "o", "m">> /\ Arg(args, 2) # Undefined
            /\ ~TypeofFunction(Arg(args, 2)) -> Thrown
      [] of = "Array" /\ name = <<"f", "r", "o", "m">> /\ Arg(args, 2) = Undefined /\ Nullish(Arg(args, 1)) ->
            Thrown
      [] of = "Array" /\ name = <<"f", "r", "o", "m">> /\ Arg(args, 2) = Undefined
            /\ \/ Arg(args, 1).k \in {"array", "string", "number", "boolean", "boxed"}
               \/ Arg(args, 1) = ArrayPrototype
               \/ Arg(args, 1).k = "object" /\ ~In(<<"l", "e", "n", "g", "t", "h">>, Arg(args, 1)) ->
            Arr([i \in 1..Cardinality(DOMAIN Spread(IF Arg(args, 1).k = "object" THEN Undefined
                                                     ELSE Arg(args, 1))) |->
                    Get(Arg(args, 1), NatToString(i - 1))])
      [] of = "Object" /\ name = <<"f", "r", "o", "m", "E", "n", "t", "r", "i", "e", "s">>
            /\ \/ Nullish(Arg(args, 1))
               \/ Arg(args, 1).k \in {"number", "boolean", "function"}
               \/ Arg(args, 1).k = "object" /\ "proto" \notin DOMAIN Arg(args, 1)
               \/ Arg(args, 1).k = "boxed" /\ Arg(args, 1).v.k # "string"
               \/ Arg(args, 1) \in {ObjectPrototype, FunctionPrototype, NumberPrototype,
                                     BooleanPrototype} -> Thrown
      [] of = "Object" /\ name = <<"f", "r", "o", "m", "E", "n", "t", "r", "i", "e", "s">>
            /\ Arg(args, 1) \in {Arr(<<>>), Str(<<>>), Boxed(Str(<<>>)), ArrayPrototype,
                                  StringPrototype} -> Obj(<<>>)
      [] of = "Object" /\ name = <<"f", "r", "o", "m", "E", "n", "t", "r", "i", "e", "s">>
            /\ \/ Arg(args, 1).k = "string" /\ Arg(args, 1).s # <<>>
               \/ Arg(args, 1).k = "boxed" /\ Arg(args, 1).v.k = "string"
                     /\ Arg(args, 1).v.s # <<>>
               \/ \E i \in DOMAIN Entries : ~IsObjectType(Entries[i]) -> Thrown
      [] of = "Object" /\ name = <<"f", "r", "o", "m", "E", "n", "t", "r", "i", "e", "s">> /\ Arg(args, 1).k = "array"
            /\ (\A i \in DOMAIN Entries :
                    /\ Entries[i].k \in {"object", "array"}
                    /\ Get(Entries[i], <<"0">>).k = "string") ->
            Obj([q \in {Get(Entries[i], <<"0">>).s : i \in DOMAIN Entries} |->
                    Get(Entries[CHOOSE i \in DOMAIN Entries :
                                   /\ Get(Entries[i], <<"0">>).s = q
                                   /\ \A j \in DOMAIN Entries :
                                         Get(Entries[j], <<"0">>).s = q => j <= i],
                        <<"1">>)])
      [] of = "Object" /\ name \in {<<"g", "e", "t", "O", "w", "n", "P", "r", "o", "p", "e", "r", "t", "y", "D", "e", "s", "c", "r", "i", "p", "t", "o", "r">>, <<"g", "e", "t", "O", "w", "n", "P", "r", "o", "p", "e", "r", "t", "y", "D", "e", "s", "c", "r", "i", "p", "t", "o", "r", "s">>}
            /\ Nullish(Arg(args, 1)) -> Thrown
      [] of = "Object" /\ name = <<"g", "e", "t", "O", "w", "n", "P", "r", "o", "p", "e", "r", "t", "y", "D", "e", "s", "c", "r", "i", "p", "t", "o", "r">> /\ ~Nullish(Arg(args, 1))
            /\ key = Thrown -> Thrown
      [] of = "Object" /\ name = <<"g", "e", "t", "O", "w", "n", "P", "r", "o", "p", "e", "r", "t", "y", "D", "e", "s", "c", "r", "i", "p", "t", "o", "r">> /\ ~Nullish(Arg(args, 1))
            /\ key # Thrown /\ ~HasOwn(ToObject(Arg(args, 1)), key.s) -> Undefined
      [] of = "Object" /\ name = <<"g", "e", "t", "O", "w", "n", "P", "r", "o", "p", "e", "r", "t", "y", "D", "e", "s", "c", "r", "i", "p", "t", "o", "r">> /\ ~Nullish(Arg(args, 1))
            /\ key # Thrown /\ HasOwn(ToObject(Arg(args, 1)), key.s)
            /\ Described(ToObject(Arg(args, 1))) ->
            DescriptorOf(ToObject(Arg(args, 1)), key.s)
      [] of = "Object" /\ name = <<"g", "e", "t", "O", "w", "n", "P", "r", "o", "p", "e", "r", "t", "y", "D", "e", "s", "c", "r", "i", "p", "t", "o", "r", "s">> /\ ~Nullish(Arg(args, 1))
            /\ (Described(ToObject(Arg(args, 1))) \/ Arg(args, 1).k \in {"number", "boolean"}) ->
            Obj([q \in {p \in DOMAIN Spread(Arg(args, 1)) \cup {kLength} :
                          HasOwn(ToObject(Arg(args, 1)), p)} |->
                    DescriptorOf(ToObject(Arg(args, 1)), q)])
      [] of = "Object" /\ name \in {<<"k", "e", "y", "s">>, <<"v", "a", "l", "u", "e", "s">>, <<"e", "n", "t", "r", "i", "e", "s">>, <<"g", "e", "t", "O", "w", "n", "P", "r", "o", "p", "e", "r", "t", "y", "N", "a", "m", "e", "s">>,
                                    <<"g", "e", "t", "O", "w", "n", "P", "r", "o", "p", "e", "r", "t", "y", "S", "y", "m", "b", "o", "l", "s">>, <<"g", "e", "t", "P", "r", "o", "t", "o", "t", "y", "p", "e", "O", "f">>, <<"a", "s", "s", "i", "g", "n">>}
            /\ Nullish(Arg(args, 1)) -> Thrown
      [] of = "Object" /\ name = <<"g", "e", "t", "P", "r", "o", "t", "o", "t", "y", "p", "e", "O", "f">> -> Proto(ToObject(Arg(args, 1)))
      [] of = "Object" /\ name \in {<<"k", "e", "y", "s">>, <<"v", "a", "l", "u", "e", "s">>, <<"e", "n", "t", "r", "i", "e", "s">>}
            /\ Cardinality({q \in DOMAIN Spread(Arg(args, 1)) : ~IsArrayIndex(q)}) <= 1 ->
            Arr([i \in 1..Len(OwnEnumerableKeys(Arg(args, 1))) |->
                    IF name = <<"k", "e", "y", "s">> THEN Str(OwnEnumerableKeys(Arg(args, 1))[i])
                    ELSE IF name = <<"v", "a", "l", "u", "e", "s">>
                    THEN Spread(Arg(args, 1))[OwnEnumerableKeys(Arg(args, 1))[i]]
                    ELSE Arr(<<Str(OwnEnumerableKeys(Arg(args, 1))[i]),
                               Spread(Arg(args, 1))[OwnEnumerableKeys(Arg(args, 1))[i]]>>)])
      [] of = "Object" /\ name = <<"g", "e", "t", "O", "w", "n", "P", "r", "o", "p", "e", "r", "t", "y", "N", "a", "m", "e", "s">>
            /\ (Arg(args, 1).k \in {"object", "number", "boolean"}
                \/ (Arg(args, 1).k = "boxed" /\ Arg(args, 1).v.k # "string"))
            /\ Cardinality({q \in DOMAIN Spread(Arg(args, 1)) : ~IsArrayIndex(q)}) <= 1 ->
            Arr([i \in 1..Len(OwnEnumerableKeys(Arg(args, 1))) |->
                    Str(OwnEnumerableKeys(Arg(args, 1))[i])])
      [] of = "Object" /\ name = <<"g", "e", "t", "O", "w", "n", "P", "r", "o", "p", "e", "r", "t", "y", "N", "a", "m", "e", "s">>
            /\ (Arg(args, 1).k \in {"array", "string"}
                \/ (Arg(args, 1).k = "boxed" /\ Arg(args, 1).v.k = "string")) ->
            Arr([i \in 1..(Len(OwnEnumerableKeys(Arg(args, 1))) + 1) |->
                    IF i <= Len(OwnEnumerableKeys(Arg(args, 1)))
                    THEN Str(OwnEnumerableKeys(Arg(args, 1))[i]) ELSE Str(<<"l", "e", "n", "g", "t", "h">>)])
      [] of = "Object" /\ name = <<"g", "e", "t", "O", "w", "n", "P", "r", "o", "p", "e", "r", "t", "y", "S", "y", "m", "b", "o", "l", "s">>
            /\ (~IsObjectType(Arg(args, 1)) \/ Arg(args, 1).k \in {"object", "array", "boxed"}) ->
            Arr(<<>>)
      [] of = "Object" /\ name = <<"a", "s", "s", "i", "g", "n">>
            /\ (\A i \in 2..Len(args) : DOMAIN Spread(args[i]) = {}) -> ToObject(Arg(args, 1))
      [] of = "Object" /\ name = <<"c", "r", "e", "a", "t", "e">>
            /\ ~(IsObjectType(Arg(args, 1)) \/ Arg(args, 1) = Null) -> Thrown
      [] of = "Object" /\ name = <<"c", "r", "e", "a", "t", "e">> /\ Arg(args, 2) = Null -> Thrown
      [] of = "Object" /\ name = <<"c", "r", "e", "a", "t", "e">> /\ (IsObjectType(Arg(args, 1)) \/ Arg(args, 1) = Null)
            /\ DOMAIN Spread(Arg(args, 2)) = {} /\ Arg(args, 2) # Null ->
            AsObject(<<>>, Arg(args, 1))
      [] of = "Object" /\ name = <<"c", "r", "e", "a", "t", "e">> /\ (IsObjectType(Arg(args, 1)) \/ Arg(args, 1) = Null)
            /\ (\E q \in DOMAIN Spread(Arg(args, 2)) : ~IsObjectType(Spread(Arg(args, 2))[q])) ->
            Thrown
      [] of = "Object" /\ name \in {<<"d", "e", "f", "i", "n", "e", "P", "r", "o", "p", "e", "r", "t", "y">>, <<"d", "e", "f", "i", "n", "e", "P", "r", "o", "p", "e", "r", "t", "i", "e", "s">>}
            /\ ~IsObjectType(Arg(args, 1)) -> Thrown
      [] of = "Object" /\ name = <<"d", "e", "f", "i", "n", "e", "P", "r", "o", "p", "e", "r", "t", "y">> /\ IsObjectType(Arg(args, 1))
            /\ ~IsObjectType(Arg(args, 3)) -> Thrown
      [] of = "Object" /\ name = <<"d", "e", "f", "i", "n", "e", "P", "r", "o", "p", "e", "r", "t", "i", "e", "s">> /\ IsObjectType(Arg(args, 1))
            /\ \/ Nullish(Arg(args, 2))
               \/ \E q \in DOMAIN Spread(Arg(args, 2)) : ~IsObjectType(Spread(Arg(args, 2))[q]) ->
            Thrown
      [] of = "Object" /\ name = <<"d", "e", "f", "i", "n", "e", "P", "r", "o", "p", "e", "r", "t", "i", "e", "s">> /\ IsObjectType(Arg(args, 1))
            /\ ~Nullish(Arg(args, 2)) /\ DOMAIN Spread(Arg(args, 2)) = {} -> Arg(args, 1)
      [] of = "Object" /\ name = <<"s", "e", "t", "P", "r", "o", "t", "o", "t", "y", "p", "e", "O", "f">>
            /\ (Nullish(Arg(args, 1)) \/ ~(IsObjectType(Arg(args, 2)) \/ Arg(args, 2) = Null)) ->
            Thrown
      [] of = "Object" /\ name = <<"s", "e", "t", "P", "r", "o", "t", "o", "t", "y", "p", "e", "O", "f">> /\ ~IsObjectType(Arg(args, 1))
            /\ ~Nullish(Arg(args, 1)) /\ (IsObjectType(Arg(args, 2)) \/ Arg(args, 2) = Null) ->
            Arg(args, 1)
      [] of = "Object" /\ name = <<"h", "a", "s", "O", "w", "n">> ->
            IF Nullish(Arg(args, 1)) \/ key = Thrown THEN Thrown
            ELSE Bool(HasOwn(ToObject(Arg(args, 1)), key.s))
      [] of = "Object" /\ name = <<"i", "s">> /\ Arg(args, 1) # Arg(args, 2) -> Bool(FALSE)
      [] of = "Object" /\ name = <<"i", "s">> /\ Arg(args, 1) = Arg(args, 2)
            /\ \/ ~IsObjectType(Arg(args, 1))
               \/ Arg(args, 1).k = "prototype"
               \/ Arg(args, 1).k = "function" /\ Arg(args, 1).f = "native" -> Bool(TRUE)
      [] of = "Object" /\ name = <<"i", "s", "E", "x", "t", "e", "n", "s", "i", "b", "l", "e">> -> Bool(IsObjectType(Arg(args, 1)))
      [] of = "Object" /\ name \in {<<"i", "s", "F", "r", "o", "z", "e", "n">>, <<"i", "s", "S", "e", "a", "l", "e", "d">>} -> Bool(~IsObjectType(Arg(args, 1)))
      [] of = "Object" /\ name \in {<<"f", "r", "e", "e", "z", "e">>, <<"s", "e", "a", "l">>, <<"p", "r", "e", "v", "e", "n", "t", "E", "x", "t", "e", "n", "s", "i", "o", "n", "s">>} -> Arg(args, 1)
      [] of = "Number" /\ name = <<"i", "s", "N", "a", "N">> -> Bool(Arg(args, 1) = NaN)
      [] of = "Number" /\ name = <<"i", "s", "F", "i", "n", "i", "t", "e">> ->
            Bool(/\ Arg(args, 1).k = "number"
                 /\ Arg(args, 1) \notin {NaN, NamedNumber(kInfinity), NamedNumber(<<"-", "I", "n", "f", "i", "n", "i", "t", "y">>)})
      [] of = "Number" /\ name \in {<<"i", "s", "I", "n", "t", "e", "g", "e", "r">>, <<"i", "s", "S", "a", "f", "e", "I", "n", "t", "e", "g", "e", "r">>} ->
            Bool(/\ Arg(args, 1).k = "number"
                 /\ \/ ~IsNamedNumber(Arg(args, 1))
                    \/ Arg(args, 1) \in {NumberConstant(<<"M", "A", "X", "_", "S", "A", "F", "E", "_", "I", "N", "T", "E", "G", "E", "R">>),
                                          NumberConstant(<<"M", "I", "N", "_", "S", "A", "F", "E", "_", "I", "N", "T", "E", "G", "E", "R">>)}
                    \/ name = <<"i", "s", "I", "n", "t", "e", "g", "e", "r">> /\ Arg(args, 1) = NumberConstant(<<"M", "A", "X", "_", "V", "A", "L", "U", "E">>))
      [] of = "Number" /\ name = <<"p", "a", "r", "s", "e", "F", "l", "o", "a", "t">> ->
            IF str1 = Thrown THEN Thrown ELSE ParseFloat(str1.s)
      [] of = "Number" /\ name = <<"p", "a", "r", "s", "e", "I", "n", "t">> ->
            IF str1 = Thrown \/ num2 = Thrown THEN Thrown ELSE ParseInt(str1.s,
                          IF ~IsNamedNumber(num2) THEN num2.n
                          ELSE IF num2 = NumberConstant(<<"M", "A", "X", "_", "S", "A", "F", "E", "_", "I", "N", "T", "E", "G", "E", "R">>) THEN 0 - 1
                          ELSE IF num2 = NumberConstant(<<"M", "I", "N", "_", "S", "A", "F", "E", "_", "I", "N", "T", "E", "G", "E", "R">>) THEN 1
                          ELSE 0)

\* A built-in function called with the given `this` and arguments, of which
\* the first two convert to the strings str1 and str2 and to the numbers num1
\* and num2, and all of them to the strings strs; a function converts the
\* arguments it uses.  Every method of Array.prototype begins with
\* ToObject(this), which throws for undefined and null; so does every method
\* of String.prototype but toString and valueOf, before ToString(this).
CallNative(env, this, args, active, str1, str2, num1, num2, strs) ==
    CASE env.role = "constructor" -> CallConstructor(env.owner, args, str1, num1, strs)
      [] env.role = "static" -> CallStatic(env.owner, env.name, args, str1, str2, num2)
      [] env.role = "method" /\ env.owner = "Object" ->
            CallObjectMethod(env.name, this, args, str1, active)
      [] env.role = "method" /\ env.owner = "Array" ->
            IF Nullish(this) THEN Thrown
            ELSE CallArrayMethod(env.name, ToObject(this), args, str1, active)
      [] env.role = "method" /\ env.owner = "Function" ->
            CallFunctionMethod(env.name, this, args, active)
      [] env.role = "method" /\ env.owner = "String" /\ env.name \notin {kToString, kValueOf} ->
            IF Nullish(this) THEN Thrown
            ELSE CallStringMethod(env.name, ToStringValue(this, active), args, str1, str2,
                                  num1, num2, strs)
      [] env.role = "method" /\ env.owner \in {"String", "Number", "Boolean"} ->
            CallPrimitiveMethod(env.owner, env.name, this, args)

\* fn.call(this, ...args)
Call(fn, this, args, active) ==
    LET entered == active \cup {[m |-> fn.env, o |-> this]} IN
    CASE fn = FunctionPrototype -> Undefined
      [] fn # FunctionPrototype /\ fn.f = "constLit" -> Str(<<"L">>)
      [] fn # FunctionPrototype /\ fn.f = "suppress" -> Undefined
      [] fn # FunctionPrototype /\ fn.f = "callerHook" ->
            Obj(Put(Spread(Arg(args, 1)), kHooked, Bool(TRUE)))
      [] fn # FunctionPrototype /\ fn.f = "linkDecoration" ->
            LinkDecorationUnchanged(fn.env, Arg(args, 1), Get(Arg(args, 1), kLink))
      [] fn # FunctionPrototype /\ fn.f = "native" ->
            IF [m |-> fn.env, o |-> this] \in active THEN Thrown
            ELSE CallNative(fn.env, this, args, entered,
                            ToStringValue(Arg(args, 1), entered),
                            ToStringValue(Arg(args, 2), entered),
                            ToNumber(Arg(args, 1), entered),
                            ToNumber(Arg(args, 2), entered),
                            [i \in DOMAIN args |-> ToStringValue(args[i], entered)])

\* transformer(value, item): the value it returns, or Thrown
CallTransformer(transformer, value, item) == Call(transformer, Undefined, <<value, item>>, {})

\* ToString, as a template literal applies it to a substitution: a string
\* value, or Thrown
TemplateString(v) == ToStringValue(v, {})

\* The body of the post-processor generateDataModel creates, for the model w
\* (own properties and prototype) whose link reads as `link`: it writes
\* model.link in place and returns the same object.  The template literal
\* converts the link first and then the suffix; a conversion that throws, or a
\* write that throws, ends the call.
DecorateLink(mergedOptions, w, link) ==
    IF link = Thrown THEN [o |-> w.o, proto |-> w.proto, threw |-> TRUE]
    ELSE IF /\ Truthy(link)
            /\ Truthy(mergedOptions.addRefToLink)
            /\ Truthy(mergedOptions.refParam)
    THEN SetProperty(w, kLink,
                     Concat(TemplateString(link), TemplateString(mergedOptions.refParam)))
    ELSE [o |-> w.o, proto |-> w.proto, threw |-> FALSE]

\* The post-processor generateDataModel creates
linkDecoration(mergedOptions, w) ==
    DecorateLink(mergedOptions, w, Get(AsObject(w.o, w.proto), kLink))

\* What the post-processor leaves: the object it returns, the own properties
\* of the object `result` afterwards, and whether it threw.
Decoration(d) == [result |-> AsObject(d.o, d.proto), model |-> d.o, threw |-> d.threw]

\* What a post-processor that returned r (or threw) leaves of the model w it
\* was given and does not write
Returned(r, w) ==
    [result |-> IF r = Thrown THEN Undefined ELSE r, model |-> w.o, threw |-> (r = Thrown)]

\* The object `mergedOptions` of generateModel (lines 56-60), which is `this`
\* in the call of line 118
MergedOptionsObject(mergedOptions) ==
    Obj((<<"t", "r", "a", "n", "s", "f", "o", "r", "m", "e", "r", "s">> :> mergedOptions.transformers)
        @@ (<<"d", "e", "f", "a", "u", "l", "t", "s">> :> mergedOptions.defaults)
        @@ (<<"p", "o", "s", "t", "P", "r", "o", "c", "e", "s", "s">> :> mergedOptions.postProcess))

\* Object.assign(result, item, index) for the model w and the own enumerable
\* properties of item: each is written as an assignment writes it, and a write
\* that fails ends the call.  A property `__proto__` of item would be written
\* through the accessor of Object.prototype; that case has no value here.
AssignSource(w, props) ==
    CASE kProto \notin DOMAIN props /\ (\E q \in DOMAIN props : SetProperty(w, q, props[q]).threw) ->
            [o |-> w.o, proto |-> w.proto, threw |-> TRUE]
      [] kProto \notin DOMAIN props /\ (\A q \in DOMAIN props : ~SetProperty(w, q, props[q]).threw) ->
            [o |-> [q \in DOMAIN w.o \cup DOMAIN props |->
                       IF q \in DOMAIN props THEN props[q] ELSE w.o[q]],
             proto |-> w.proto, threw |-> FALSE]

\* mergedOptions.postProcess(result, item, index) for the model w, a method
\* call on mergedOptions: the value it returns, the own properties of the
\* object `result` afterwards, and whether it threw.  Object.assign and
\* Object.setPrototypeOf write to their first argument, here the model just
\* built, and return it.
CallPostProcess(mergedOptions, w, item, index) ==
    IF mergedOptions.postProcess # FunctionPrototype
       /\ mergedOptions.postProcess.f = "linkDecoration"
    THEN Decoration(linkDecoration(mergedOptions.postProcess.env, w))
    ELSE IF mergedOptions.postProcess = Native("Object", "static", <<"a", "s", "s", "i", "g", "n">>)
            /\ DOMAIN Spread(item) # {}
    THEN Decoration(AssignSource(w, Spread(item)))
    ELSE IF mergedOptions.postProcess = Native("Object", "static", <<"s", "e", "t", "P", "r", "o", "t", "o", "t", "y", "p", "e", "O", "f">>)
            /\ (IsObjectType(item) \/ item = Null)
    THEN Decoration([o |-> w.o, proto |-> item, threw |-> FALSE])
    ELSE Returned(Call(mergedOptions.postProcess, MergedOptionsObject(mergedOptions),
                       <<AsObject(w.o, w.proto), item, Num(index)>>, {}), w)

-----------------------------------------------------------------------------
(* generateModel *)

\* The nested traversal of a dot-notation key, from nestedValue on; a read
\* that throws ends it.
RECURSIVE TraverseParts(_, _)
TraverseParts(nestedValue, parts) ==
    IF parts = <<>> \/ nestedValue = Thrown
    THEN [found |-> TRUE, nestedValue |-> nestedValue]
    ELSE IF Truthy(nestedValue) /\ TypeofObject(nestedValue) /\ In(Head(parts), nestedValue)
         THEN TraverseParts(Get(nestedValue, Head(parts)), Tail(parts))
         ELSE [found |-> FALSE, nestedValue |-> nestedValue]

\* A faulty variant: `if (found)`, without the test for undefined
NestedCandidate_FoundOnly(t) ==
    IF t.found
    THEN [stop |-> TRUE, value |-> t.nestedValue]
    ELSE [stop |-> FALSE, value |-> Undefined]

\* `if (found && nestedValue !== undefined) { value = nestedValue; break; }`
NestedCandidate(t) ==
    IF t.found /\ t.nestedValue # Undefined
    THEN [stop |-> TRUE, value |-> t.nestedValue]
    ELSE [stop |-> FALSE, value |-> Undefined]

\* The body of `for (const key of sourceFields)` for one key: whether it
\* breaks out of the loop (or throws), and the value it then leaves in `value`.
Candidate(item, key) ==
    IF includes(key, ".")
    THEN NestedCandidate(TraverseParts(item, split(key, ".")))
    ELSE IF Truthy(item) /\ TypeofObject(item) /\ In(key, item)
         THEN [stop |-> TRUE, value |-> Get(item, key)]
         ELSE [stop |-> FALSE, value |-> Undefined]

\* The loop `for (const key of sourceFields)` from candidate i on: the value it
\* leaves in `value` (Thrown when a read threw), whether a `break` ended it,
\* and how many candidates it looked at.
RECURSIVE ScanSourceFields(_, _, _)
ScanStep(item, sourceFields, i, c) ==
    IF c.stop THEN [value |-> c.value, stopped |-> TRUE, consulted |-> i]
    ELSE ScanSourceFields(item, sourceFields, i + 1)

ScanSourceFields(item, sourceFields, i) ==
    IF i > Len(sourceFields)
    THEN [value |-> Undefined, stopped |-> FALSE, consulted |-> Len(sourceFields)]
    ELSE ScanStep(item, sourceFields, i, Candidate(item, sourceFields[i]))

\* A faulty variant: the index for any unresolved field, not for `id` alone
IdFallback_AnyField(value, field, index) ==
    IF value = Undefined THEN Num(index) ELSE value

\* `if (value === undefined && field === 'id') value = index`
IdFallback(value, field, index) ==
    IF value = Undefined /\ field = kId THEN Num(index) ELSE value

\* `if (transformer && typeof transformer === 'function') value = transformer(value, item)`;
\* Thrown when the scan or the read of the transformer threw
ApplyTransformer(transformer, value, item) ==
    IF value = Thrown \/ transformer = Thrown THEN Thrown
    ELSE IF Truthy(transformer) /\ TypeofFunction(transformer)
    THEN CallTransformer(transformer, value, item)
    ELSE value

\* A faulty variant: `model[field] = value` without the test for undefined
AssignField_Always(w, field, value) == SetProperty(w, field, value)

\* `if (value !== undefined) model[field] = value`
AssignField(w, field, value) ==
    IF value # Undefined THEN SetProperty(w, field, value)
    ELSE [o |-> w.o, proto |-> w.proto, threw |-> FALSE]

\* The end of one iteration of the forEach: st is the working model (own
\* properties and prototype) and the log so far, w the model after the
\* assignment.  An exception ends the call.
StoreField(st, field, index, transformer, scan, passed, w) ==
    [model |-> w.o,
     proto |-> w.proto,
     log |-> Append(st.log,
                    [ev |-> "field", index |-> index, field |-> field,
                     consulted |-> scan.consulted, stopped |-> scan.stopped,
                     resolved |-> scan.value,
                     passed |-> passed,
                     transformed |-> /\ transformer # Thrown
                                     /\ Truthy(transformer)
                                     /\ TypeofFunction(transformer)]),
     threw |-> w.threw]

\* The transformer step and the assignment
TransformField(st, field, index, transformer, scan, passed, value) ==
    StoreField(st, field, index, transformer, scan, passed,
               IF value = Thrown THEN [o |-> st.model, proto |-> st.proto, threw |-> TRUE]
               ELSE AssignField([o |-> st.model, proto |-> st.proto], field, value))

\* The id fallback
FallbackField(st, field, item, index, transformer, scan, passed) ==
    TransformField(st, field, index, transformer, scan, passed,
                   ApplyTransformer(transformer, passed, item))

\* The rest of one iteration of the forEach once the scan has ended
ResolveField(st, field, item, index, transformer, scan) ==
    FallbackField(st, field, item, index, transformer, scan,
                  IdFallback(scan.value, field, index))

\* One iteration of the forEach over Object.entries(fieldMapping)
ProcessField(st, field, sourceFields, item, index, transformers) ==
    IF ~Truthy(sourceFields) \/ ~IsArray(sourceFields) THEN st
    ELSE ResolveField(st, field, item, index, Get(transformers, field),
                      ScanSourceFields(item, sourceFields.a, 1))

\* The forEach from entry i on; an exception ends it
RECURSIVE ProcessFields(_, _, _, _, _, _)
ProcessFields(entries, i, item, index, transformers, st) ==
    IF i > Len(entries) \/ st.threw THEN st
    ELSE ProcessFields(entries, i + 1, item, index, transformers,
                       ProcessField(st, entries[i].key, entries[i].value, item, index,
                                    transformers))

\* A faulty variant: `const model = mergedOptions.defaults`, the defaults object itself
WorkingModel_Aliased(defaults) == [obj |-> Spread(defaults), fresh |-> FALSE]

\* `const model = { ...mergedOptions.defaults }`: a new object with the
\* defaults' properties; `fresh` says that it is not the defaults object itself.
WorkingModel(defaults) == [obj |-> Spread(defaults), fresh |-> TRUE]

\* What the data.map callback leaves when pp is the outcome of its last step
RecordOutcome(st, working, mergedOptions, index, hooked, pp) ==
    [result |-> pp.result,
     log |-> IF hooked
             THEN Append(st.log, [ev |-> "postProcess", index |-> index,
                                  fn |-> mergedOptions.postProcess,
                                  arg |-> AsObject(st.model, st.proto)])
             ELSE st.log,
     defaults |-> IF working.fresh THEN mergedOptions.defaults ELSE Obj(pp.model),
     threw |-> pp.threw]

\* The last step of the data.map callback, after the forEach
PostProcessStep(st, item, index, mergedOptions, hooked) ==
    IF hooked
    THEN CallPostProcess(mergedOptions, [o |-> st.model, proto |-> st.proto], item, index)
    ELSE [result |-> AsObject(st.model, st.proto), model |-> st.model, threw |-> FALSE]

\* The end of the data.map callback, after the forEach: the model it returns,
\* what it did, the contents of the object mergedOptions.defaults afterwards,
\* and whether it threw.
PostProcessRecord(st, working, item, index, mergedOptions) ==
    IF st.threw
    THEN [result |-> Undefined, log |-> st.log,
          defaults |-> IF working.fresh THEN mergedOptions.defaults ELSE Obj(st.model),
          threw |-> TRUE]
    ELSE RecordOutcome(st, working, mergedOptions, index,
                       Truthy(mergedOptions.postProcess)
                           /\ TypeofFunction(mergedOptions.postProcess),
                       PostProcessStep(st, item, index, mergedOptions,
                                       Truthy(mergedOptions.postProcess)
                                           /\ TypeofFunction(mergedOptions.postProcess)))

\* The forEach of the data.map callback, on the working model
FieldsOfRecord(item, index, entries, mergedOptions, working) ==
    ProcessFields(entries, 1, item, index, mergedOptions.transformers,
                  [model |-> working.obj, proto |-> ObjectPrototype, log |-> <<>>,
                   threw |-> FALSE])

\* The data.map callback for one item
ProcessRecord(item, index, entries, mergedOptions) ==
    PostProcessRecord(FieldsOfRecord(item, index, entries, mergedOptions,
                                     WorkingModel(mergedOptions.defaults)),
                      WorkingModel(mergedOptions.defaults), item, index, mergedOptions)

\* The array data.map builds, one entry per callback result, in order; a
\* callback that throws adds no entry
Collect(acc, r) ==
    [out |-> IF r.threw THEN acc.out ELSE Append(acc.out, r.result),
     log |-> acc.log \o r.log, defaults |-> r.defaults, threw |-> r.threw]

\* data.map(...), from position index on; an exception ends it
RECURSIVE MapRecords(_, _, _, _, _)
MapRecords(items, index, entries, mergedOptions, acc) ==
    IF index >= Len(items) \/ acc.threw THEN acc
    ELSE MapRecords(items, index + 1, entries, mergedOptions,
                    Collect(acc, ProcessRecord(items[index + 1], index, entries,
                                               [mergedOptions EXCEPT !.defaults = acc.defaults])))

\* `x || {}` on an options property
OrEmpty(slot) == IF Truthy(slot) THEN slot ELSE Obj(<<>>)

\* `const mergedOptions = { transformers: options.transformers || {}, ... }`
EngineMergedOptions(opts) ==
    [transformers |-> OrEmpty(opts.transformers),
     defaults |-> OrEmpty(opts.defaults),
     postProcess |-> Read(opts.postProcess)]

\* The call once mergedOptions is built; data.map visits the elements of the
\* array, and Array.prototype is an array without elements
RunEngine(d, entries, mergedOptions) ==
    IF ~Truthy(d) \/ ~IsArray(d)
    THEN [out |-> <<>>, log |-> <<>>, defaults |-> mergedOptions.defaults, threw |-> FALSE]
    ELSE MapRecords(IF d.k = "array" THEN d.a ELSE <<>>, 0, entries, mergedOptions,
                    [out |-> <<>>, log |-> <<>>, defaults |-> mergedOptions.defaults,
                     threw |-> FALSE])

\* generateModel(data, fieldMapping, options): the array it returns, what it
\* did, the contents of the object options.defaults afterwards, and whether it
\* threw instead of returning.
generateModel(d, entries, opts) == RunEngine(d, entries, EngineMergedOptions(opts))

-----------------------------------------------------------------------------
(* generateDataModel *)

\* The value of the module-level constant defaultDataModelMapping
DefaultDataModelMappingValue ==
    <<
        [key |-> <<"i", "d">>,
         value |-> Arr(<<<<"c", "o", "l", "l", "e", "c", "t", "i", "o", "n", "I", "d">>,
                        <<"g", "u", "i", "d">>,
                        <<"_", "i", "d">>,
                        <<"i", "d">>>>)],
        [key |-> <<"t", "i", "t", "l", "e">>,
         value |-> Arr(<<<<"t", "i", "t", "l", "e">>>>)],
        [key |-> <<"d", "o", "m", "a", "i", "n">>,
         value |-> Arr(<<<<"d", "o", "m", "a", "i", "n">>>>)],
        [key |-> <<"a", "u", "t", "h", "o", "r">>,
         value |-> Arr(<<<<"a", "u", "t", "h", "o", "r">>,
                        <<"c", "r", "e", "a", "t", "o", "r">>>>)],
        [key |-> <<"d", "e", "s", "c", "r", "i", "p", "t", "i", "o", "n">>,
         value |-> Arr(<<<<"d", "e", "s", "c", "r", "i", "p", "t", "i", "o", "n">>,
                        <<"e", "x", "c", "e", "r", "p", "t">>,
                        <<"c", "o", "n", "t", "e", "n", "t">>,
                        <<"s", "u", "m", "m", "a", "r", "y">>>>)],
        [key |-> <<"c", "o", "v", "e", "r">>,
         value |-> Arr(<<<<"c", "o", "v", "e", "r">>,
                        <<"i", "m", "a", "g", "e">>,
                        <<"t", "h", "u", "m", "b", "n", "a", "i", "l">>>>)],
        [key |-> <<"l", "i", "n", "k">>,
         value |-> Arr(<<<<"l", "i", "n", "k">>,
                        <<"u", "r", "l">>>>)],
        [key |-> <<"l", "a", "s", "t", "U", "p", "d", "a", "t", "e">>,
         value |-> Arr(<<<<"l", "a", "s", "t", "U", "p", "d", "a", "t", "e">>,
                        <<"p", "u", "b", "D", "a", "t", "e">>,
                        <<"u", "p", "d", "a", "t", "e", "d">>,
                        <<"d", "a", "t", "e">>>>)],
        [key |-> <<"t", "a", "g", "s">>,
         value |-> Arr(<<<<"t", "a", "g", "s">>,
                        <<"c", "a", "t", "e", "g", "o", "r", "i", "e", "s">>,
                        <<"k", "e", "y", "w", "o", "r", "d", "s">>>>)],
        [key |-> <<"v", "a", "l", "u", "e">>,
         value |-> Arr(<<<<"v", "a", "l", "u", "e">>>>)]
    >>

kRefParamDefault == <<"?", "r", "e", "f", "=", "b", "o", "o", "k", "m", "a", "r", "k", "s", "f", "o", "r", ".", "d", "e", "v">>

\* How many entries are listed before a new array-index key
IndexRank(entries, key) ==
    Cardinality({i \in 1..Len(entries) :
                    IsArrayIndex(entries[i].key) /\ IndexLess(entries[i].key, key)})

\* obj[key] = value on an object kept as its Object.entries, whose prototype is
\* Object.prototype: an existing key keeps its place; a new `__proto__` goes to
\* the accessor and makes no property; a new array index goes among the array
\* indices; any other new key goes last.
EntriesPut(entries, key, value) ==
    IF \E i \in 1..Len(entries) : entries[i].key = key
    THEN [i \in 1..Len(entries) |->
            IF entries[i].key = key THEN [key |-> key, value |-> value] ELSE entries[i]]
    ELSE IF key = kProto THEN entries
    ELSE IF IsArrayIndex(key)
    THEN SubSeq(entries, 1, IndexRank(entries, key))
         \o <<[key |-> key, value |-> value]>>
         \o SubSeq(entries, IndexRank(entries, key) + 1, Len(entries))
    ELSE Append(entries, [key |-> key, value |-> value])

\* entries-object[key], for an own key
EntriesGet(entries, key) ==
    IF \E i \in 1..Len(entries) : entries[i].key = key
    THEN (CHOOSE e \in {entries[i] : i \in 1..Len(entries)} : e.key = key).value
    ELSE Undefined

EntryKeys(entries) == {entries[i].key : i \in 1..Len(entries)}

\* A faulty variant: `{ ...options, ...defaultOptions, ... }`, the defaults spread last
DataModelMergedOptions_DefaultsWin(opts) ==
    [addRefToLink |-> Bool(TRUE),
     refParam |-> Str(kRefParamDefault),
     postProcess |-> opts.postProcess,
     transformers |-> Obj(Spread(opts.transformers)),
     defaults |-> Obj(Spread(opts.defaults))]

\* `const mergedOptions = { ...defaultOptions, ...options, transformers: {...},
\* defaults: {...} }`: a property the caller's options has, even with the value
\* undefined, replaces the default one.
DataModelMergedOptions(opts) ==
    [addRefToLink |-> IF opts.addRefToLink = Absent THEN Bool(TRUE) ELSE opts.addRefToLink,
     refParam |-> IF opts.refParam = Absent THEN Str(kRefParamDefault) ELSE opts.refParam,
     postProcess |-> opts.postProcess,
     transformers |-> Obj(Spread(opts.transformers)),
     defaults |-> Obj(Spread(opts.defaults))]

\* `const mergedMapping = { ...defaultDataModelMapping }`: a new object with the
\* default's entries; `fresh` says that it is not the module-level object itself.
MergedMappingInit(defaultMapping) == [entries |-> defaultMapping, fresh |-> TRUE]

\* A faulty variant: the caller's candidates are appended to the list already there
AddUserMapping_Appends(merged, key, value) ==
    IF Truthy(value) /\ IsArray(value)
    THEN IF key \in EntryKeys(merged)
         THEN EntriesPut(merged, key, Arr(EntriesGet(merged, key).a \o value.a))
         ELSE EntriesPut(merged, key, value)
    ELSE merged

\* `mergedMapping[key] = value` for one entry of the caller's fieldMapping
AddUserMapping(merged, key, value) ==
    IF Truthy(value) /\ IsArray(value) THEN EntriesPut(merged, key, value) ELSE merged

\* The forEach over Object.entries(fieldMapping), from entry i on
RECURSIVE AddUserMappings(_, _, _)
AddUserMappings(merged, entries, i) ==
    IF i > Len(entries) THEN merged
    ELSE AddUserMappings(AddUserMapping(merged, entries[i].key, entries[i].value),
                         entries, i + 1)

\* A faulty variant: `{ postProcess, ...mergedOptions }`, the caller's hook spread last
DataModelEngineOptions_CallerWins(mergedOptions) ==
    IF mergedOptions.postProcess # Absent
    THEN mergedOptions
    ELSE [mergedOptions EXCEPT
            !.postProcess = Fn("linkDecoration",
                               [addRefToLink |-> mergedOptions.addRefToLink,
                                refParam |-> mergedOptions.refParam])]

\* The options object generateDataModel passes on: { ...mergedOptions, postProcess }
DataModelEngineOptions(mergedOptions) ==
    [mergedOptions EXCEPT
        !.postProcess = Fn("linkDecoration", [addRefToLink |-> mergedOptions.addRefToLink,
                                              refParam |-> mergedOptions.refParam])]

\* What generateDataModel returns (r is the engine's result), the mapping table
\* it handed on, and the contents of the module-level defaultDataModelMapping
\* afterwards.
DataModelReturn(r, merged, fresh, defaultMapping) ==
    [out |-> r.out, log |-> r.log, threw |-> r.threw, mapping |-> merged,
     defaultMapping |-> IF fresh THEN defaultMapping ELSE merged]

\* `return generateModel(data, mergedMapping, { ...mergedOptions, postProcess })`
DataModelDelegate(d, merged, mergedOptions, fresh, defaultMapping) ==
    DataModelReturn(generateModel(d, merged, DataModelEngineOptions(mergedOptions)),
                    merged, fresh, defaultMapping)

\* generateDataModel(data, fieldMapping, options)
generateDataModel(d, entries, opts, defaultMapping) ==
    LET mergedMapping == MergedMappingInit(defaultMapping)
    IN DataModelDelegate(d, AddUserMappings(mergedMapping.entries, entries, 1),
                         DataModelMergedOptions(opts), mergedMapping.fresh, defaultMapping)

-----------------------------------------------------------------------------
(* isBetween (date.ts) *)

\* dayjs(x) for x a number of milliseconds: the instant x
dayjs(x) == x

\* d.isAfter(e) and d.isBefore(e) of dayjs, with no unit: strict comparison of
\* the instants
isAfter(d, e) == d > e
isBefore(d, e) == d < e

\* isBetween(date, startDate, endDate, inclusivity)
isBetween(date, startDate, endDate, inclusivity) ==
    LET d == dayjs(date)
    IN isAfter(d, dayjs(startDate)) /\ isBefore(d, dayjs(endDate))

-----------------------------------------------------------------------------
(* The inputs *)

MaxRecords == 2   \* the longest data array
MaxTime == 4      \* instants are 0..MaxTime

\* The source records: two objects, with scalars, a nested object, an array
\* (in the first), null and undefined values; and a record that is null
Items ==
    { Obj((<<"x">> :> Num(0)) @@ (<<"s">> :> Str(<<>>)) @@ (<<"f">> :> Bool(FALSE)) @@ (<<"z">> :> Null)
          @@ (<<"y">> :> Num(99)) @@ (<<"a">> :> Obj(<<"b">> :> Num(5))) @@ (kLink :> Str(<<"u">>))
          @@ (kId :> Num(7)) @@ (<<"r">> :> Arr(<<Obj(<<"b">> :> Num(5))>>))),
      Obj((<<"x">> :> Undefined) @@ (<<"y">> :> Num(99)) @@ (<<"a">> :> Null)
          @@ (<<"c">> :> Obj(<<"b">> :> Undefined)) @@ (kLink :> Str(<<>>)) @@ (<<"u", "r", "l">> :> Str(<<"u">>))
          @@ (<<"g", "u", "i", "d">> :> Str(<<"g">>))),
      Null }

\* The data arguments: every array of at most MaxRecords records, and a value
\* that is no array
DataArgs ==
    {Arr(a) : a \in UNION {[1..n -> Items] : n \in 0..MaxRecords}} \cup {Null}

\* The fieldMapping arguments, as Object.entries lists them; a candidate list
\* is the sequence of its keys.  Two of them name a field after a member of
\* Object.prototype: valueOf, and an own key __proto__ (which an object has
\* when it is made by JSON.parse or with a computed key)
FieldMappingArgs ==
    { <<>>,
      << [key |-> <<"v">>, value |-> Arr(<<<<"x">>, <<"y">>>>)],
         [key |-> <<"s">>, value |-> Arr(<<<<"s">>, <<"y">>>>)],
         [key |-> <<"f">>, value |-> Arr(<<<<"f">>, <<"y">>>>)],
         [key |-> <<"z">>, value |-> Arr(<<<<"z">>, <<"y">>>>)],
         [key |-> <<"n">>, value |-> Arr(<<<<"a", ".", "b">>, <<"c", ".", "b">>, <<"y">>>>)],
         [key |-> <<"m">>, value |-> Arr(<<<<"y", ".", "b">>, <<"a", ".", "c">>, <<"a", ".", "b", ".", "c">>, <<"x">>>>)],
         [key |-> <<"p">>, value |-> Arr(<<<<"r", ".", "1", ".", "b">>, <<"r", ".", "0", ".", "b">>>>)],
         [key |-> <<"q">>, value |-> Arr(<<<<"r", ".", "l", "e", "n", "g", "t", "h">>, <<"y">>>>)],
         [key |-> <<"h">>, value |-> Arr(<<<<"a", ".", "t", "o", "S", "t", "r", "i", "n", "g">>, <<"a", ".", "b">>>>)],
         [key |-> <<"k">>, value |-> Arr(<<<<"c", "o", "n", "s", "t", "r", "u", "c", "t", "o", "r">>, <<"y">>>>)],
         [key |-> kId, value |-> Arr(<<<<"m", "i", "s", "s", "i", "n", "g", "K", "e", "y">>>>)] >>,
      << [key |-> kId, value |-> Arr(<<>>)],
         [key |-> <<"e">>, value |-> Arr(<<>>)],
         [key |-> <<"w">>, value |-> Undefined],
         [key |-> <<"t">>, value |-> Str(<<"x">>)] >>,
      << [key |-> <<"n">>, value |-> Arr(<<<<"a", ".", "b", ".", "c">>, <<"a", ".", "b">>>>)],
         [key |-> kLink, value |-> Arr(<<<<"u", "r", "l">>, kLink>>)],
         [key |-> kId, value |-> Arr(<<kId, <<"g", "u", "i", "d">>>>)],
         [key |-> <<"e">>, value |-> Arr(<<<<"m", "i", "s", "s", "i", "n", "g", "K", "e", "y">>>>)] >>,
      << [key |-> kId, value |-> Null],
         [key |-> <<"t", "i", "t", "l", "e">>, value |-> Undefined],
         [key |-> <<"e">>, value |-> Arr(<<>>)] >>,
      << [key |-> kId, value |-> Arr(<<kId>>)],
         [key |-> kValueOf, value |-> Arr(<<<<"x">>>>)] >>,
      << [key |-> kProto, value |-> Arr(<<<<"a">>>>)],
         [key |-> kId, value |-> Arr(<<kId, <<"g", "u", "i", "d">>>>)] >> }

NoOptions ==
    [transformers |-> Absent, defaults |-> Absent, postProcess |-> Absent,
     addRefToLink |-> Absent, refParam |-> Absent]

\* The options arguments: transformers that are the caller's functions, a value
\* that is no function and a built-in method, which throws when it is called
\* as a transformer; a transformers bundle that is itself a function; and a
\* suffix that is an object with a toString of its own
OptionsArgs ==
    { NoOptions,
      [NoOptions EXCEPT
          !.defaults = Obj((<<"v">> :> Str(<<"D">>)) @@ (<<"e">> :> Str(<<"D">>)) @@ (kId :> Str(<<"D">>))
                           @@ (kLink :> Str(<<"D">>)) @@ (<<"w">> :> Str(<<"D">>)))],
      [NoOptions EXCEPT
          !.transformers = Obj((<<"v">> :> Callback("suppress")) @@ (<<"w">> :> Callback("constLit"))
                               @@ (<<"n">> :> Str(<<"x">>))
                               @@ (<<"k">> :> Native("Object", "method", <<"h", "a", "s", "O", "w", "n", "P", "r", "o", "p", "e", "r", "t", "y">>))),
          !.defaults = Obj(<<"t">> :> Str(<<"D">>))],
      [NoOptions EXCEPT
          !.transformers = Obj((kId :> Callback("constLit")) @@ (kLink :> Callback("suppress"))
                               @@ (<<"e">> :> Callback("constLit"))),
          !.defaults = Obj(<<"e">> :> Str(<<"D">>)),
          !.postProcess = Callback("callerHook"),
          !.refParam = Str(<<"?", "r">>)],
      [NoOptions EXCEPT !.addRefToLink = Bool(FALSE), !.postProcess = Callback("callerHook")],
      [NoOptions EXCEPT !.addRefToLink = Undefined, !.defaults = Obj(kLink :> Str(<<"D">>))],
      [NoOptions EXCEPT !.refParam = Str(<<>>), !.transformers = Undefined],
      [NoOptions EXCEPT
          !.transformers = Callback("constLit"),
          !.refParam = Obj(kToString :> Callback("suppress"))] }

Inclusivities == {"()", "[]", "[)", "(]"}

\* No isBetween call yet
NoDate == [date |-> 0, startDate |-> 0, endDate |-> 0, inclusivity |-> "none"]

-----------------------------------------------------------------------------
(* The state machine *)

Snapshot(dm, d, fm, o) ==
    [defaultDataModelMapping |-> dm, data |-> d, fieldMapping |-> fm, options |-> o]

\* What a call left its caller with
Outcome(r) == [out |-> IF r.threw THEN <<>> ELSE r.out, raised |-> r.threw]

Init ==
    /\ defaultDataModelMapping = DefaultDataModelMappingValue
    /\ data \in DataArgs
    /\ fieldMapping \in FieldMappingArgs
    /\ options \in OptionsArgs
    /\ snapshot = Snapshot(defaultDataModelMapping, data, fieldMapping, options)
    /\ lastCall = "none"
    /\ out = <<>>
    /\ raised = FALSE
    /\ log = <<>>
    /\ mapping = <<>>
    /\ firstOut = [generateModel |-> <<>>, generateDataModel |-> <<>>]
    /\ repeated = FALSE
    /\ dateArgs = NoDate
    /\ dateResult = FALSE

\* A call generateModel(data, fieldMapping, options)
GenerateModelCall ==
    \E r \in {generateModel(data, fieldMapping, options)} :
       /\ lastCall' = "generateModel"
       /\ out' = Outcome(r).out
       /\ raised' = r.threw
       /\ log' = r.log
       /\ mapping' = fieldMapping
       /\ options' = IF Truthy(options.defaults)
                     THEN [options EXCEPT !.defaults = r.defaults]
                     ELSE options
       /\ firstOut' = IF firstOut.generateModel = <<>>
                      THEN [firstOut EXCEPT !.generateModel = <<Outcome(r)>>]
                      ELSE firstOut
       /\ repeated' = (firstOut.generateModel # <<>>)
       /\ UNCHANGED <<defaultDataModelMapping, data, fieldMapping, snapshot, dateVars>>

\* A call generateDataModel(data, fieldMapping, options)
GenerateDataModelCall ==
    \E r \in {generateDataModel(data, fieldMapping, options, defaultDataModelMapping)} :
       /\ lastCall' = "generateDataModel"
       /\ out' = Outcome(r).out
       /\ raised' = r.threw
       /\ log' = r.log
       /\ mapping' = r.mapping
       /\ defaultDataModelMapping' = r.defaultMapping
       /\ firstOut' = IF firstOut.generateDataModel = <<>>
                      THEN [firstOut EXCEPT !.generateDataModel = <<Outcome(r)>>]
                      ELSE firstOut
       /\ repeated' = (firstOut.generateDataModel # <<>>)
       /\ UNCHANGED <<data, fieldMapping, options, snapshot, dateVars>>

Next == GenerateModelCall \/ GenerateDataModelCall

Spec == Init /\ [][Next]_vars

\* The date helper on its own
InitDate ==
    /\ defaultDataModelMapping = DefaultDataModelMappingValue
    /\ data = Arr(<<>>)
    /\ fieldMapping = <<>>
    /\ options = NoOptions
    /\ snapshot = Snapshot(defaultDataModelMapping, data, fieldMapping, options)
    /\ lastCall = "none"
    /\ out = <<>>
    /\ raised = FALSE
    /\ log = <<>>
    /\ mapping = <<>>
    /\ firstOut = [generateModel |-> <<>>, generateDataModel |-> <<>>]
    /\ repeated = FALSE
    /\ dateArgs = NoDate
    /\ dateResult = FALSE

\* A call isBetween(date, startDate, endDate, inclusivity)
IsBetweenCall ==
    \E date \in 0..MaxTime, startDate \in 0..MaxTime, endDate \in 0..MaxTime,
       inclusivity \in Inclusivities :
        /\ dateArgs' = [date |-> date, startDate |-> startDate, endDate |-> endDate,
                        inclusivity |-> inclusivity]
        /\ dateResult' = isBetween(date, startDate, endDate, inclusivity)
        /\ UNCHANGED <<defaultDataModelMapping, data, fieldMapping, options, snapshot,
                     lastCall, out, raised, log, mapping, firstOut, repeated>>

NextDate == IsBetweenCall

SpecDate == InitDate /\ [][NextDate]_vars

-----------------------------------------------------------------------------
(* What the claims are stated in *)

\* The records of the data argument
Records == IF IsArray(data) THEN data.a ELSE <<>>

FieldEvents == {i \in 1..Len(log) : log[i].ev = "field"}
PostEvents == {i \in 1..Len(log) : log[i].ev = "postProcess"}

\* The candidate list the engine scanned for the field of event e, and the
\* record it scanned it in
CandidatesOf(e) == EntriesGet(mapping, e.field).a
ItemOf(e) == Records[e.index + 1]

\* The options the engine ran under in the last call
OptionsInEffect ==
    IF lastCall = "generateDataModel"
    THEN EngineMergedOptions(DataModelEngineOptions(DataModelMergedOptions(options)))
    ELSE EngineMergedOptions(options)

\* The value at the end of a path of keys from v: undefined as soon as the
\* current value is null, is not object-like or does not contain the key
RECURSIVE PathValue(_, _)
PathValue(v, path) ==
    IF path = <<>> THEN v
    ELSE IF v # Null /\ TypeofObject(v) /\ In(Head(path), v)
         THEN PathValue(Get(v, Head(path)), Tail(path))
         ELSE Undefined

\* What looking a candidate key up in a record yields
LookupValue(item, key) ==
    PathValue(item, IF \E n \in 1..Len(key) : key[n] = "." THEN split(key, ".") ELSE <<key>>)

\* The positions of the candidates whose lookup yields something defined
DefinedAt(item, candidates) ==
    {j \in 1..Len(candidates) : LookupValue(item, candidates[j]) # Undefined}

Least(S) == CHOOSE j \in S : \A n \in S : j <= n

\* A function is registered as the transformer of field f
HasTransformer(f) == TypeofFunction(Get(OrEmpty(options.transformers), f))

\* The field is in model m only as options.defaults supplies it
OnlyFromDefaults(m, f) ==
    HasOwn(m, f) =>
        /\ f \in DOMAIN Spread(options.defaults)
        /\ Get(m, f) = Spread(options.defaults)[f]

\* The suffix feature and the suffix, with their defaults
AddRefToLinkInEffect == IF options.addRefToLink = Absent THEN Bool(TRUE) ELSE options.addRefToLink
RefParamInEffect == IF options.refParam = Absent THEN Str(kRefParamDefault) ELSE options.refParam

\* Model m with its link followed by the suffix
Decorated(m) ==
    AsObject(Put(m.o, kLink, Str(TemplateString(Get(m, kLink)).s
                                 \o TemplateString(RefParamInEffect).s)),
             Proto(m))

\* The fields for which the caller's fieldMapping holds a candidate list
CallerListed == {fieldMapping[j].key : j \in {n \in 1..Len(fieldMapping) : IsArray(fieldMapping[n].value)}}

-----------------------------------------------------------------------------
(* The claims *)

\* C1 (as claimed): whenever the functions the caller registered (the
\* postProcess hook and the transformers) are functions that do not throw,
\* generateModel returns, with exactly one entry per record of data, the
\* entry at position i built from data[i] with index i: a field that no
\* transformer handled holds the value of one of its candidates in data[i],
\* or, for an unresolved id, the index i; and the hook ran on that entry.
C1_OneModelPerRecordInOrder ==
    (/\ lastCall = "generateModel"
     /\ \A fn \in {Read(options.postProcess)}
                  \cup {Spread(Read(options.transformers))[q] :
                            q \in DOMAIN Spread(Read(options.transformers))} :
            TypeofFunction(fn) =>
                fn \in {Callback("constLit"), Callback("suppress"), Callback("callerHook")})
    => /\ ~raised
       /\ Len(out) = Len(Records)
       /\ \A i \in 1..Len(out) :
            /\ \A j \in FieldEvents :
                  (/\ log[j].index = i - 1
                   /\ ~log[j].transformed
                   /\ log[j].passed # Undefined
                   /\ log[j].field # kProto) =>
                      /\ HasOwn(out[i], log[j].field)
                      /\ Get(out[i], log[j].field) = log[j].passed
                      /\ \/ /\ log[j].field = kId
                            /\ log[j].resolved = Undefined
                            /\ log[j].passed = Num(i - 1)
                         \/ \E n \in 1..Len(CandidatesOf(log[j])) :
                               log[j].passed = LookupValue(Records[i], CandidatesOf(log[j])[n])
            /\ TypeofFunction(Read(options.postProcess)) => Get(out[i], kHooked) = Bool(TRUE)

\* C2 (as claimed): the value resolved for a field is that of the first
\* candidate whose lookup yields something other than undefined, the scan goes
\* no further than that candidate, and a candidate yielding undefined (a key
\* present with the value undefined included) never stops it.
C2_FirstDefinedCandidateWins ==
    \A i \in FieldEvents :
        LET e == log[i]
            hits == DefinedAt(ItemOf(e), CandidatesOf(e))
        IN IF hits = {}
           THEN e.resolved = Undefined /\ ~e.stopped
           ELSE /\ e.resolved = LookupValue(ItemOf(e), CandidatesOf(e)[Least(hits)])
                /\ e.stopped
                /\ e.consulted = Least(hits)

\* C3: a dot-path candidate the scan looks at ends the scan exactly when the
\* strict traversal of its segments ends in a defined value, and then with that
\* value; a traversal that fails (at a value that is null, not object-like or
\* without the segment as a key) or ends in undefined lets the scan go on.
C3_DotPathStrictTraversal ==
    \A i \in FieldEvents :
        LET e == log[i] IN
        \A j \in 1..Len(CandidatesOf(e)) :
            LET key == CandidatesOf(e)[j] IN
            ((\E n \in 1..Len(key) : key[n] = ".") /\ j <= e.consulted) =>
                IF PathValue(ItemOf(e), split(key, ".")) # Undefined
                THEN /\ e.stopped
                     /\ e.consulted = j
                     /\ e.resolved = PathValue(ItemOf(e), split(key, "."))
                ELSE e.consulted > j \/ ~e.stopped

\* C3 witness: "a.b" resolved to 5 in one record; in another, whose a is null,
\* the scan went past "a.b"; and "r.0.b" resolved to 5 through an array after
\* "r.1.b" had failed at the missing element.
C3_Witness ==
    /\ \E i \in FieldEvents :
          /\ CandidatesOf(log[i]) # <<>>
          /\ CandidatesOf(log[i])[1] = <<"a", ".", "b">>
          /\ log[i].stopped /\ log[i].consulted = 1
          /\ log[i].resolved = Num(5)
    /\ \E i \in FieldEvents :
          /\ CandidatesOf(log[i]) # <<>>
          /\ CandidatesOf(log[i])[1] = <<"a", ".", "b">>
          /\ ItemOf(log[i]).k = "object"
          /\ Get(ItemOf(log[i]), <<"a">>) = Null
          /\ log[i].consulted > 1
    /\ \E i \in FieldEvents :
          /\ CandidatesOf(log[i]) = <<<<"r", ".", "1", ".", "b">>, <<"r", ".", "0", ".", "b">>>>
          /\ log[i].stopped /\ log[i].consulted = 2
          /\ log[i].resolved = Num(5)

\* C4 (as claimed): a field whose candidate list is empty or absent is in the
\* model generateModel returns only as options.defaults supplies it, whatever
\* the field's name and whether or not it has a transformer.
C4_EmptyOrAbsentOnlyFromDefaults ==
    lastCall = "generateModel" =>
        \A i \in 1..Len(out), j \in 1..Len(mapping) :
            (~IsArray(mapping[j].value) \/ mapping[j].value.a = <<>>) =>
                OnlyFromDefaults(out[i], mapping[j].key)

\* C4 (amended): that holds for every field whose candidate list is absent or
\* no array, and for a field with the empty list [] when the field is not `id`
\* and has no transformer; an `id` with the list [] and no transformer gets the
\* record's index.
C4_AbsentOnlyFromDefaults ==
    lastCall = "generateModel" =>
        \A i \in 1..Len(out), j \in 1..Len(mapping) :
            LET f == mapping[j].key
                sourceFields == mapping[j].value
            IN /\ ~IsArray(sourceFields) => OnlyFromDefaults(out[i], f)
               /\ (IsArray(sourceFields) /\ sourceFields.a = <<>> /\ ~HasTransformer(f)) =>
                     IF f = kId THEN HasOwn(out[i], f) /\ Get(out[i], f) = Num(i - 1)
                                ELSE OnlyFromDefaults(out[i], f)

\* C4 witness: a field with no list and a transformer stayed out of the model,
\* and a field whose list is no array came from the defaults.
C4_Witness ==
    /\ lastCall = "generateModel"
    /\ Len(out) >= 1
    /\ \E j \in 1..Len(mapping) :
          /\ ~IsArray(mapping[j].value)
          /\ HasTransformer(mapping[j].key)
          /\ ~HasOwn(out[1], mapping[j].key)
    /\ \E j \in 1..Len(mapping) :
          /\ ~IsArray(mapping[j].value)
          /\ mapping[j].key \in DOMAIN Spread(options.defaults)
          /\ HasOwn(out[1], mapping[j].key)
    /\ \E j \in 1..Len(mapping) :
          /\ IsArray(mapping[j].value) /\ mapping[j].value.a = <<>>
          /\ mapping[j].key # kId
          /\ ~HasOwn(out[1], mapping[j].key)

\* C5: when no candidate of the field `id` yields a defined value, the value
\* passed on is the record's 0-based index, which without a transformer is the
\* model's id; every other field, and a resolved id, passes on what the scan
\* resolved.
C5_IdFallsBackToIndex ==
    \A i \in FieldEvents :
        LET e == log[i] IN
        /\ e.index \in 0..(Len(Records) - 1)
        /\ e.passed = IF e.resolved = Undefined /\ e.field = kId THEN Num(e.index)
                                                                   ELSE e.resolved
        /\ (~raised /\ e.field = kId /\ e.resolved = Undefined /\ ~e.transformed) =>
              /\ HasOwn(out[e.index + 1], kId)
              /\ Get(out[e.index + 1], kId) = Num(e.index)

\* C5 witness: with no transformer and no id in any record, the records got the
\* ids 0 and 1, and an unresolved field other than id passed on undefined.
C5_Witness ==
    /\ lastCall = "generateModel"
    /\ options.transformers = Absent
    /\ Len(out) >= 2
    /\ \A r \in 1..Len(out) : HasOwn(out[r], kId) /\ Get(out[r], kId) = Num(r - 1)
    /\ \A i \in FieldEvents : log[i].field = kId => log[i].resolved = Undefined
    /\ \E i \in FieldEvents :
          /\ log[i].field # kId
          /\ log[i].resolved = Undefined
          /\ log[i].passed = Undefined

\* C6 (as claimed): generateDataModel returns the resolved model with the suffix
\* appended to its link when the link is present and the feature is enabled,
\* and the resolved model as it is otherwise; presence decides.
C6_LinkDecoratedWhenPresent ==
    (lastCall = "generateDataModel" /\ ~raised) =>
        \A i \in PostEvents :
            LET m == log[i].arg
                o == out[log[i].index + 1]
            IN IF In(kLink, m) /\ Truthy(AddRefToLinkInEffect)
               THEN o = Decorated(m)
               ELSE o = m

\* C6 (amended): the suffix is appended, once, when the resolved link is truthy
\* (for a string: non-empty), the feature is enabled and the suffix is truthy,
\* the link being the string conversion of the resolved link followed by that of
\* the suffix; in every other case the model is returned as resolved.
\* Truthiness decides: a present empty-string link stays as it is.
C6_LinkDecoratedWhenTruthy ==
    (lastCall = "generateDataModel" /\ ~raised) =>
        \A i \in PostEvents :
            LET m == log[i].arg
                o == out[log[i].index + 1]
            IN IF /\ Truthy(Get(m, kLink))
                  /\ Truthy(AddRefToLinkInEffect)
                  /\ Truthy(RefParamInEffect)
               THEN o = Decorated(m)
               ELSE o = m

\* C6 witness: under the default options the link "u" came back with the
\* default suffix, and an empty link came back empty.
C6_Witness ==
    /\ lastCall = "generateDataModel"
    /\ options.addRefToLink = Absent /\ options.refParam = Absent
    /\ \E i \in PostEvents :
          /\ Get(log[i].arg, kLink) = Str(<<"u">>)
          /\ Get(out[log[i].index + 1], kLink) = Str(<<"u">> \o kRefParamDefault)
    /\ \E i \in PostEvents :
          /\ HasOwn(log[i].arg, kLink)
          /\ Get(log[i].arg, kLink) = Str(<<>>)
          /\ Get(out[log[i].index + 1], kLink) = Str(<<>>)

\* C7 (as claimed): the mapping table generateDataModel hands to the engine
\* holds, for every field to which the caller's fieldMapping gives a candidate
\* list, exactly that list, and for every other field of
\* defaultDataModelMapping exactly the default list; it has no other field.
C7_CallerListsReplaceDefaults ==
    lastCall = "generateDataModel" =>
        /\ \A j \in 1..Len(fieldMapping) :
              IsArray(fieldMapping[j].value) =>
                  EntriesGet(mapping, fieldMapping[j].key) = fieldMapping[j].value
        /\ \A j \in 1..Len(snapshot.defaultDataModelMapping) :
              snapshot.defaultDataModelMapping[j].key \notin CallerListed =>
                  EntriesGet(mapping, snapshot.defaultDataModelMapping[j].key)
                      = snapshot.defaultDataModelMapping[j].value
        /\ EntryKeys(mapping) = EntryKeys(snapshot.defaultDataModelMapping) \cup CallerListed
        /\ Len(mapping) = Cardinality(EntryKeys(mapping))

\* C7 (amended): that holds for every field of the caller's other than
\* `__proto__`; an own key `__proto__` of fieldMapping with a candidate list
\* adds no field to the table, which keeps the default fields, the caller's
\* other fields and nothing else.
C7_CallerListsReplaceDefaultsButProto ==
    lastCall = "generateDataModel" =>
        /\ \A j \in 1..Len(fieldMapping) :
              (IsArray(fieldMapping[j].value) /\ fieldMapping[j].key # kProto) =>
                  EntriesGet(mapping, fieldMapping[j].key) = fieldMapping[j].value
        /\ \A j \in 1..Len(snapshot.defaultDataModelMapping) :
              snapshot.defaultDataModelMapping[j].key \notin CallerListed =>
                  EntriesGet(mapping, snapshot.defaultDataModelMapping[j].key)
                      = snapshot.defaultDataModelMapping[j].value
        /\ EntryKeys(mapping)
              = EntryKeys(snapshot.defaultDataModelMapping) \cup (CallerListed \ {kProto})
        /\ Len(mapping) = Cardinality(EntryKeys(mapping))
        /\ \A i \in FieldEvents : log[i].field # kProto

\* C7 witness: the caller's fieldMapping had an own key __proto__ with a list,
\* which the table does not have; the caller's id list replaced the default
\* one, so that a record's id came from the key id, which the default list
\* consults last, while title kept the default list.
C7_Witness ==
    /\ lastCall = "generateDataModel"
    /\ kProto \in CallerListed
    /\ kProto \notin EntryKeys(mapping)
    /\ EntriesGet(fieldMapping, kId) = Arr(<<kId, <<"g", "u", "i", "d">>>>)
    /\ EntriesGet(mapping, kId) = Arr(<<kId, <<"g", "u", "i", "d">>>>)
    /\ EntriesGet(mapping, <<"t", "i", "t", "l", "e">>) = Arr(<<<<"t", "i", "t", "l", "e">>>>)
    /\ \E i \in FieldEvents :
          log[i].field = kId /\ log[i].consulted = 1 /\ log[i].resolved = Num(7)

\* C8: no call changes defaultDataModelMapping, the caller's fieldMapping, the
\* caller's options with its transformers and defaults, or the records; and a
\* call returns what the first call of the same function returned.
C8_InputsUnchangedAndRepeatable ==
    /\ defaultDataModelMapping = snapshot.defaultDataModelMapping
    /\ defaultDataModelMapping = DefaultDataModelMappingValue
    /\ fieldMapping = snapshot.fieldMapping
    /\ options = snapshot.options
    /\ data = snapshot.data
    /\ lastCall = "generateModel" =>
          firstOut.generateModel = <<[out |-> out, raised |-> raised]>>
    /\ lastCall = "generateDataModel" =>
          firstOut.generateDataModel = <<[out |-> out, raised |-> raised]>>

\* C8 witness: a second generateDataModel call, after a generateModel call too,
\* with defaults and a mapping override in play, returned a link that carries
\* the suffix once.
C8_Witness ==
    /\ lastCall = "generateDataModel"
    /\ repeated
    /\ firstOut.generateModel # <<>>
    /\ Truthy(options.defaults)
    /\ CallerListed # {}
    /\ \E r \in 1..Len(out) :
          /\ HasOwn(out[r], kLink)
          /\ Get(out[r], kLink) = Str(<<"D">> \o kRefParamDefault)

\* C9 (as claimed): isBetween returns true exactly when date lies between
\* startDate and endDate, each bound included or excluded as inclusivity says,
\* both included by default.
C9_IsBetweenHonoursInclusivity ==
    dateArgs.inclusivity # "none" =>
        dateResult =
            CASE dateArgs.inclusivity = "[]" ->
                    dateArgs.startDate <= dateArgs.date /\ dateArgs.date <= dateArgs.endDate
              [] dateArgs.inclusivity = "[)" ->
                    dateArgs.startDate <= dateArgs.date /\ dateArgs.date < dateArgs.endDate
              [] dateArgs.inclusivity = "(]" ->
                    dateArgs.startDate < dateArgs.date /\ dateArgs.date <= dateArgs.endDate
              [] OTHER ->
                    dateArgs.startDate < dateArgs.date /\ dateArgs.date < dateArgs.endDate


====
